---- MODULE Spec2Model ----
(***************************************************************************)
(* v9_worker: the component registry (ComponentManager behind a            *)
(* parking_lot RwLock), the per-component handle mutex, the isolation      *)
(* wrapper's boot / query / heartbeat state machine, the named-pipe        *)
(* exchange with the component subprocess, and the mapping of worker       *)
(* errors to HTTP responses.                                               *)
(*                                                                         *)
(* Time is counted in minutes.  An Option<T> is a sequence of length 0     *)
(* (None) or 1 (Some).  A HashMap is a function whose DOMAIN is its key    *)
(* set.                                                                    *)
(***************************************************************************)
EXTENDS Integers, Sequences, FiniteSets, TLC

(* ------------------------------ bounds -------------------------------- *)

\* HTTP requests the server accepts in one run.
MaxRequests == 4
\* Requests served in the specification of unordered calls.
MaxUnorderedRequests == 5
\* Requests served in the ownership specification.
MaxOwnedRequests == 4
\* HTTP requests the server accepts in one run of the concurrent specification.
MaxConcurrentRequests == 3
\* HTTP requests the server accepts in one run of the fair specification.
MaxFairRequests == 3
\* HTTP requests the server accepts in one run of the routing specification.
MaxRoutedRequests == 3
\* Minutes the clock of the StatTracker specification runs for.
MaxStatsTime == 7
\* Events the StatTracker specification inserts.
MaxEvents == 4
\* Events the percentile specification inserts.
MaxSamples == 12
\* LogTrackers made, values drawn from DEDUP_COUNTER, and get_contents calls
\* per tracker, in one run of the LogTracker specification.
MaxTrackers == 2
MaxGenerations == 5
MaxSeen == 3
\* Containers docker creates in one run of the pool specification.
MaxContainers == 6
\* Callers of get_idle_container that are handed a container in one run of the
\* fair pool specification.
MaxAcquired == 1
\* Bytes in a payload, and calls of NamedPipe::write, in one run of the pipe
\* specification.
MaxPayload == 2
MaxWrites == 2
\* Bytes a FIFO holds before a write to it has to wait (65536 on Linux), and
\* bytes read(2) is asked for at a time (512 in the source), scaled down.
FifoCapacity == 2
BUF_SIZE == 2
\* The clock stops advancing here (minutes).
MaxTime == 20
\* One advance of the clock (minutes).
ClockStep == 10

(* ------------------------- program constants -------------------------- *)

\* isolation.rs: EXPIRY_DURATION = Duration::from_secs(60 * 10), in minutes.
EXPIRY_DURATION == 10

(* ------------------------------ domains ------------------------------- *)

Threads == {"t1", "t2", "t3"}
\* The threads that serve requests in the concurrent and the fair specification.
Workers == {"t1", "t2"}
HeartbeatThread == "hb"
Paths == {"p1", "p2"}
Hashes == {"h1", "h2"}
\* model.rs: enum ExecutionMethod
ExecutionMethods == {"DockerArchive", "PythonUnsafe"}

\* WorkerErrorKind
WorkerErrorKinds ==
    {"Docker", "Hyper", "Io", "IntegerConversion", "InternalJsonHandling",
     "InvalidSerialization", "InvalidUtf8", "Nix", "OperationTimedOut",
     "OsStringConversion", "PathNotFound", "PipeDisconnected", "Regex",
     "SubprocessStart", "SubprocessTerminated", "TokioJoinError",
     "UnsupportedPlatform", "WrongMethod"}

\* What the component subprocess may answer to one request line.
\*   ok200 / ok404: a ComponentResponse with that code, no error_message
\*   err500:    a ComponentResponse with a non-empty error_message, code 500
\*   undecodable: a line that is not percent-encoded JSON of a ComponentResponse
\*   badutf8:   a line that is not UTF-8
\*   badstatus: a ComponentResponse whose code fits u16 but is no HTTP status
\*   badpercent: a UTF-8 line whose percent-decoding is not UTF-8
\*   bigstatus: a ComponentResponse whose code does not fit u16
ComponentAnswers ==
    {"ok200", "ok404", "err500", "undecodable", "badutf8", "badstatus",
     "badpercent", "bigstatus"}

VARIABLES
    now,                \* Instant::now(), minutes
    budget,             \* requests the server will still accept
    active_components,  \* ComponentManager.active_components
    readers,            \* threads holding serverless_component_manager.read()
    writer,             \* <<>> or <<thread holding .write()>>
    procs,              \* every subprocess ever spawned: pid -> status
    pc,                 \* each request thread's position
    req,                \* each request thread's current request
    todo,               \* handles a status / logs walk has still to visit, in order
    collected,          \* the ComponentIds a status walk has put in its response
    write_idx,          \* NamedPipe::write's cursor into v, per thread
    call_resp,          \* handle_component_call's result, per thread (Option)
    outcome,            \* what the last request of each thread came to
    hb_pc,              \* the heartbeat thread's position
    hb_todo             \* handles the heartbeat sweep has still to visit, in order

\* The library components the manager's handles are built from, each modelled
\* on its own: a StatTracker, the LogTrackers, the idle container pool and a
\* NamedPipe's write end.
VARIABLES
    event_deque,        \* StatTracker.event_deque
    inserted,           \* every StatEvent add_stat_event was called with
    stats_result,       \* what the last get_component_stats returned (Option)
    DEDUP_COUNTER,      \* logs.rs: the process-wide AtomicU64
    log_trackers,       \* every LogTracker made so far
    log_seen,           \* the generations get_contents reported, per tracker
    cache_channel,      \* the sync_channel of idle containers
    populators,         \* the cache populator threads
    receiver_lock,      \* <<>> or <<holder of the Mutex around the receiver>>
    acquirers,          \* the callers of get_idle_container
    containers,         \* how many containers docker has created so far
    pipe,               \* a NamedPipe and the FIFO it writes to
    write_call,         \* NamedPipe::write in progress, or what it returned
    read_call,          \* NamedPipe::read in progress, or what it returned
    peer                \* the process at the other end of the FIFOs

stats_vars == <<event_deque, inserted, stats_result>>
logs_vars == <<DEDUP_COUNTER, log_trackers, log_seen>>
pool_vars == <<cache_channel, populators, receiver_lock, acquirers, containers>>
pipe_vars == <<pipe, write_call, read_call, peer>>
lib_vars == <<stats_vars, logs_vars, pool_vars, pipe_vars>>

core_vars == <<now, budget, active_components, readers, writer, procs, pc, req,
          todo, collected, write_idx, call_resp, outcome, hb_pc, hb_todo>>

vars == <<core_vars, lib_vars>>

(* ------------------------------ requests ------------------------------ *)

NoPath == "p1"
NoHash == "h1"
NoMethod == "PythonUnsafe"

Request(kind, path, hash, method) ==
    [kind |-> kind, path |-> path, hash |-> hash, method |-> method]

\* The requests a client may send, already split by HttpRequestHandler::handle:
\*   activate / deactivate: POST /meta/<action> with a parsable body
\*   bad_activate / bad_deactivate: the same with a body serde_json rejects
\*   status / logs: GET /meta/<action>
\*   wrong_verb: /meta/<known action> with another verb
\*   no_route: a path that is neither meta/<action> nor sl/<u>/<r>/<m>...
\*   invoke: any verb on /sl/<user>/<repo>/<method>
Requests ==
    {Request("activate", p, h, m) : p \in Paths, h \in Hashes, m \in ExecutionMethods}
    \cup {Request("deactivate", p, h, NoMethod) : p \in Paths, h \in Hashes}
    \cup {Request("invoke", p, NoHash, NoMethod) : p \in Paths}
    \cup {Request(k, NoPath, NoHash, NoMethod) :
            k \in {"status", "logs", "bad_activate", "bad_deactivate",
                   "wrong_verb", "no_route"}}

\* A thread that serves no request.
NoRequest == Request("no_route", NoPath, NoHash, NoMethod)

(* -------------- request_handler.rs: from the URI to the route ---------- *)

\* http::Method, as far as the routes tell verbs apart.
Verbs == {"GET", "POST", "PUT"}

\* uri.path().split('/').skip(1) of the URIs a client may send: /nonsense,
\* /meta, /meta/<action>, /meta/status/, /sl/u/r, /sl/<u>/<r>/<m>[/<rest>], ...
UriSegments ==
    {<<"nonsense">>, <<"meta">>, <<"meta", "activate">>, <<"meta", "deactivate">>,
     <<"meta", "status">>, <<"meta", "logs">>, <<"meta", "bogus">>,
     <<"meta", "status", "">>, <<"sl", "u1", "r1">>, <<"sl", "u1", "r1", "m">>,
     <<"sl", "u1", "r1", "m", "x", "y">>, <<"sl", "u2", "r2", "m">>,
     <<"sl", "u1", "r2", "m">>, <<"slx", "u1", "r1", "m">>}

\* ComponentPath::new(user, repo), named as the registry's paths are.
ComponentPathOf(user, repo) ==
    CASE user = "u1" /\ repo = "r1" -> "p1"
      [] user = "u2" /\ repo = "r2" -> "p2"
      [] OTHER -> "other"

\* serde_json::from_str(body) for an Activate/DeactivateRequest: a request
\* for a component, or an error.
ParsedBodies ==
    {[ok |-> TRUE, path |-> "p1", hash |-> "h1", method |-> "PythonUnsafe"],
     [ok |-> FALSE, path |-> NoPath, hash |-> NoHash, method |-> NoMethod]}

\* A handle_meta_request that lets status through with any verb.
MetaRouteAnyVerb(verb, route, body) ==
    CASE route = "activate" /\ verb = "POST" ->
           IF body.ok THEN Request("activate", body.path, body.hash, body.method)
           ELSE Request("bad_activate", NoPath, NoHash, NoMethod)
      [] route = "deactivate" /\ verb = "POST" ->
           IF body.ok THEN Request("deactivate", body.path, body.hash, NoMethod)
           ELSE Request("bad_deactivate", NoPath, NoHash, NoMethod)
      [] route = "logs" /\ verb = "GET" -> Request("logs", NoPath, NoHash, NoMethod)
      [] route = "status" -> Request("status", NoPath, NoHash, NoMethod)
      [] route \in {"activate", "deactivate", "logs"} ->
           Request("wrong_verb", NoPath, NoHash, NoMethod)
      [] OTHER -> Request("no_route", NoPath, NoHash, NoMethod)

\* handle_meta_request: match (route, http_verb).
MetaRoute(verb, route, body) ==
    CASE route = "activate" /\ verb = "POST" ->
           IF body.ok THEN Request("activate", body.path, body.hash, body.method)
           ELSE Request("bad_activate", NoPath, NoHash, NoMethod)
      [] route = "deactivate" /\ verb = "POST" ->
           IF body.ok THEN Request("deactivate", body.path, body.hash, NoMethod)
           ELSE Request("bad_deactivate", NoPath, NoHash, NoMethod)
      [] route = "logs" /\ verb = "GET" -> Request("logs", NoPath, NoHash, NoMethod)
      [] route = "status" /\ verb = "GET" -> Request("status", NoPath, NoHash, NoMethod)
      [] route \in {"activate", "deactivate", "logs", "status"} ->
           Request("wrong_verb", NoPath, NoHash, NoMethod)
      [] OTHER -> Request("no_route", NoPath, NoHash, NoMethod)

\* A handle that matches the first segments only.
RouteByPrefix(verb, segments, body) ==
    IF Len(segments) >= 2 /\ segments[1] = "meta"
    THEN MetaRoute(verb, segments[2], body)
    ELSE IF Len(segments) >= 3 /\ segments[1] = "sl"
    THEN Request("invoke", ComponentPathOf(segments[2], segments[3]), NoHash, NoMethod)
    ELSE Request("no_route", NoPath, NoHash, NoMethod)

\* HttpRequestHandler::handle: the branch a request's path components choose.
Route(verb, segments, body) ==
    IF Len(segments) = 2 /\ segments[1] = "meta"
    THEN MetaRoute(verb, segments[2], body)
    ELSE IF Len(segments) >= 4 /\ segments[1] = "sl"
    THEN Request("invoke", ComponentPathOf(segments[2], segments[3]), NoHash, NoMethod)
    ELSE Request("no_route", NoPath, NoHash, NoMethod)

\* A request as the client sent it, with the route handle takes for it.
Routed(verb, segments, body) ==
    LET r == Route(verb, segments, body) IN
    [kind |-> r.kind, path |-> r.path, hash |-> r.hash, method |-> r.method,
     verb |-> verb, segments |-> segments]

(* --------------------- error.rs: errors to responses ------------------ *)

\* impl Display for WorkerError: the fixed part of each kind's description.
to_string(kind) ==
    CASE kind = "Docker" -> "WorkerError, caused by internal Docker error"
      [] kind = "Hyper" -> "WorkerError, caused by internal hyper error"
      [] kind = "Io" -> "WorkerError, caused by internal I/O error"
      [] kind = "IntegerConversion" -> "WorkerError, caused by internal integer conversion error"
      [] kind = "InternalJsonHandling" -> "WorkerError, caused by internal serde_json error"
      [] kind = "InvalidSerialization" -> "WorkerError, with invalid series of bytes"
      [] kind = "InvalidUtf8" -> "WorkerError, caused by internal utf8 decode error"
      [] kind = "Nix" -> "WorkerError, caused by internal unix error"
      [] kind = "OperationTimedOut" -> "WorkerError, operation timed out"
      [] kind = "OsStringConversion" -> "WorkerError, caused by problematic OsString"
      [] kind = "PathNotFound" -> "WorkerError, path not found"
      [] kind = "PipeDisconnected" -> "Worker Error, internal pipe disconnected"
      [] kind = "Regex" -> "Worker Error, invalid regex"
      [] kind = "SubprocessStart" -> "WorkerError, caused by internal subprocess error"
      [] kind = "SubprocessTerminated" -> "WorkerError, caused by subprocess terminating"
      [] kind = "TokioJoinError" -> "WorkerError, caused by internal tokio join error"
      [] kind = "UnsupportedPlatform" -> "WorkerError, unsupported platform"
      [] kind = "WrongMethod" -> "WorkerError, invalid http verb"

HttpResponse(status, body) == [status |-> status, body |-> body]

\* impl Into<Response<Body>> for WorkerError
IntoResponse(kind) ==
    CASE kind = "PathNotFound" -> HttpResponse(404, "v9: worker 404")
      [] kind = "WrongMethod" -> HttpResponse(405, "")
      [] OTHER -> HttpResponse(543, to_string(kind))

\* What a request came to: the error it failed with ("none" if it did not
\* fail, "pending" before it ends), the result of a meta request, and the HTTP
\* response written to the client (None when the entrypoint returned Err).
Outcome(err, result, resp) == [err |-> err, result |-> result, resp |-> resp]
Pending == Outcome("pending", "", <<>>)

\* global_request_entrypoint, after spawn_blocking: Ok(resp) passes through,
\* Err(e) from the handler becomes e.into().
HandlerReturned(call) ==
    IF call.err = "none"
    THEN Outcome("none", call.result, <<call.resp>>)
    ELSE Outcome(call.err, "", <<IntoResponse(call.err)>>)

\* global_request_entrypoint: an error of the body stream (`chunk?`,
\* `str::from_utf8(..)?`) or of the blocking task (`.await?`) leaves the
\* function through `?`, as Err, before any Response is built.
EntrypointFailed(kind) == Outcome(kind, "", <<>>)

\* How reading the request body may end.
BodyOutcomes == {"ok", "Hyper", "InvalidUtf8"}

\* A handler result: Ok(response) or Err(kind).
CallOk(result, status, body) ==
    [err |-> "none", result |-> result, resp |-> HttpResponse(status, body)]
CallErr(kind) ==
    [err |-> kind, result |-> "", resp |-> HttpResponse(0, "")]

(* --------------------- isolation.rs: the wrapper ----------------------- *)

\* How IsolatedProcessWrapper::new may end for each execution method:
\* PythonUnsafeController::new never fails; the container controllers refuse a
\* non-Linux host, and DockerArchiveController::new loads the image.
ControllerOutcomes(method) ==
    CASE method = "PythonUnsafe" -> {"ok"}
      [] method = "DockerArchive" -> {"ok", "UnsupportedPlatform", "Docker"}

\* How boot_process may end: a controller's `?`s (TempDir, mkfifo,
\* canonicalize, Popen::create, docker cp).
BootOutcomes(method) ==
    CASE method = "PythonUnsafe" -> {"ok", "Io", "SubprocessStart"}
      [] method = "DockerArchive" -> {"ok", "Io", "SubprocessStart"}

\* A wrapper that loses its controller when a boot fails.
ControllerLost(handle) == [handle EXCEPT !.method = "none"]

\* `self.isolation_controller.boot_process()?` fails: query_process returns
\* the error at once, the wrapper keeps its controller and holds no handle.
BootFailed(handle) == [handle EXCEPT !.process_handle = <<>>]

\* A boot that hands out the first subprocess again.
SharedProcessHandle(pid) == [pid |-> 1, fds |-> FALSE, fin |-> <<>>, fout |-> <<>>]

\* A process handle just booted: the subprocess and its NamedPipe, no file
\* descriptor opened yet, both FIFOs empty.
NewProcessHandle(pid) == [pid |-> pid, fds |-> FALSE, fin |-> <<>>, fout |-> <<>>]

\* A process handle dropped without terminate().
LeakProcessHandle(ps, process_handle) == ps

\* Drop for PipedProcessHandle / ContainerizedProcessHandle / V9Container:
\* terminate() is called on the owned subprocess.  A subprocess that has
\* already exited stays exited.
DropProcessHandle(ps, process_handle) ==
    IF process_handle = <<>> THEN ps
    ELSE LET pid == process_handle[1].pid IN
         IF ps[pid] = "running" THEN [ps EXCEPT ![pid] = "terminated"] ELSE ps

\* A query that does not poll the subprocess.
NeverExited(ps, pid) == FALSE

\* self.subprocess.poll() / self.container.process().poll() gives Some(exit)
HasExited(ps, pid) == ps[pid] # "running"

\* A wrapper that boots on every query.
AlwaysBoot(handle) == TRUE

\* IsolatedProcessWrapper::query_process: `if self.process_handle.is_none()`
NeedsBoot(handle) == handle.process_handle = <<>>

\* A query that leaves last_accessed as it was.
Untouched(handle, t) == handle

\* IsolatedProcessWrapper::query_process, its first statement:
\* self.last_accessed = Instant::now().
Touched(handle, t) == [handle EXCEPT !.last_accessed = t]

\* A heartbeat that never evicts.
NeverExpired(handle, t) == FALSE

\* IsolatedProcessWrapper::heartbeat: the test that clears the handle.
Expired(handle, t) ==
    /\ handle.process_handle # <<>>
    /\ t - handle.last_accessed > EXPIRY_DURATION

(* ------------------- component/mod.rs: the manager --------------------- *)

\* A ComponentHandle whose wrapper boots its process when it is built.
BootedComponentHandle(r, t) ==
    [hash |-> r.hash, method |-> r.method,
     process_handle |-> <<[pid |-> 1, fds |-> FALSE, fin |-> <<>>, fout |-> <<>>]>>,
     last_accessed |-> t, hits |-> 0, color |-> "Unset", lock |-> "free"]

\* ComponentHandle as activate builds it: the wrapper is not booted, the
\* trackers are empty, the handle's mutex is free.
NewComponentHandle(r, t) ==
    [hash |-> r.hash, method |-> r.method,
     process_handle |-> <<>>, last_accessed |-> t,
     hits |-> 0, color |-> "Unset", lock |-> "free"]

\* A registry that compares the whole ComponentId, hash included.
ContainsKeyWithHash(ac, r) == r.path \in DOMAIN ac /\ ac[r.path].hash = r.hash

\* self.active_components.contains_key(&request.id.path)
ContainsKey(ac, r) == r.path \in DOMAIN ac

\* HashMap::insert
Insert(ac, path, handle) ==
    [p \in DOMAIN ac \cup {path} |-> IF p = path THEN handle ELSE ac[p]]

\* A remove that leaves the map as it was.
RemoveNothing(ac, path) == ac

\* HashMap::remove
Remove(ac, path) == [p \in DOMAIN ac \ {path} |-> ac[p]]

\* An activate without the contains_key test: HashMap::insert replaces the
\* handle of a path that is registered.
ActivateReplacing(ac, r, ctor, t) ==
    IF ctor # "ok"
    THEN [ac |-> ac, result |-> "failed-to-start"]
    ELSE [ac |-> [p \in DOMAIN ac \cup {r.path} |->
                    IF p = r.path
                    THEN [hash |-> r.hash, method |-> r.method,
                          process_handle |-> <<>>, last_accessed |-> t,
                          hits |-> 0, color |-> "Unset", lock |-> "free"]
                    ELSE ac[p]],
          result |-> "activation-successful"]

\* An activate that builds the wrapper before it looks the path up.
ActivateConstructingFirst(ac, r, ctor, t) ==
    IF ctor # "ok"
    THEN [ac |-> ac, result |-> "failed-to-start", built |-> <<"IsolatedProcessWrapper">>]
    ELSE IF ContainsKey(ac, r)
    THEN [ac |-> ac, result |-> "already-running", built |-> <<"IsolatedProcessWrapper">>]
    ELSE [ac |-> Insert(ac, r.path, NewComponentHandle(r, t)),
          result |-> "activation-successful",
          built |-> <<"IsolatedProcessWrapper", "LogTracker", "StatTracker">>]

\* ComponentManager::activate on a parsed request; ctor is how
\* IsolatedProcessWrapper::new ended.  Gives the new registry, the
\* ActivationStatus and the constructors the call has run, in order
\* (IsolatedProcessWrapper::new builds the controller, which for a Docker
\* archive loads the image and deletes the archive; LogTracker::new draws a
\* dedup_number).
Activate(ac, r, ctor, t) ==
    IF ContainsKey(ac, r)
    THEN [ac |-> ac, result |-> "already-running", built |-> <<>>]
    ELSE IF ctor # "ok"
    THEN [ac |-> ac, result |-> "failed-to-start", built |-> <<"IsolatedProcessWrapper">>]
    ELSE [ac |-> Insert(ac, r.path, NewComponentHandle(r, t)),
          result |-> "activation-successful",
          built |-> <<"IsolatedProcessWrapper", "LogTracker", "StatTracker">>]

\* ComponentHandle::get_component_status: the id given at activation and the
\* tracker's hits.
ComponentStatus(path, handle) ==
    [path |-> path, hash |-> handle.hash, hits |-> handle.hits]

\* ComponentManager::deactivate on a parsed request.  Gives the new registry,
\* the Option of the handle removed (dropped on return) and the
\* DeactivationStatus.
Deactivate(ac, r) ==
    IF ~ContainsKey(ac, r)
    THEN [ac |-> ac, dropped |-> <<>>, result |-> "component-not-found"]
    ELSE [ac |-> Remove(ac, r.path), dropped |-> <<ac[r.path]>>,
          result |-> "deactivation-successful"]

(* ---------------------- component/stats.rs: StatTracker ---------------- *)

\* DEFAULT_STAT_WINDOW, in minutes, the unit of `now`.
DEFAULT_STAT_WINDOW == 5

PERCENTILE_BUCKETS == 10

StatEvent(at, duration_ms, response_bytes) ==
    [at |-> at, duration_ms |-> duration_ms, response_bytes |-> response_bytes]

\* An f64 that is the quotient of two integers, kept as the two integers.
Quotient(total, count) == [total |-> total, count |-> count]
Zero == Quotient(0, 1)

RECURSIVE SumSeq(_)
SumSeq(s) == IF s = <<>> THEN 0 ELSE Head(s) + SumSeq(Tail(s))

Min(a, b) == IF a < b THEN a ELSE b

\* A pop_old_events that looks at the front of the queue once.
PopOneOldEvent(deque, t) ==
    IF deque # <<>> /\ Head(deque).at < t - DEFAULT_STAT_WINDOW
    THEN Tail(deque)
    ELSE deque

\* StatTracker::pop_old_events at Instant::now() = t.
RECURSIVE pop_old_events(_, _)
pop_old_events(deque, t) ==
    IF deque # <<>> /\ Head(deque).at < t - DEFAULT_STAT_WINDOW
    THEN pop_old_events(Tail(deque), t)
    ELSE deque

\* A calculate_latency_percentiles that gives every bucket the rough size and
\* the last one the rest.
PercentilesRestLast(entries) ==
    LET u32_latencies ==
          SortSeq([i \in 1..Len(entries) |-> entries[i].duration_ms],
                  LAMBDA a, b : a < b)
        rough_bucket_size == Len(u32_latencies) \div PERCENTILE_BUCKETS
        starting_index(i) == i * rough_bucket_size
        next_index(i) == IF i + 1 = PERCENTILE_BUCKETS THEN Len(u32_latencies)
                         ELSE (i + 1) * rough_bucket_size
        slice(i) == SubSeq(u32_latencies, starting_index(i) + 1, next_index(i))
        RECURSIVE res(_)
        res(i) ==
          IF i = PERCENTILE_BUCKETS THEN <<>>
          ELSE (IF slice(i) # <<>>
                THEN <<Quotient(SumSeq(slice(i)), Len(slice(i)))>>
                ELSE <<>>) \o res(i + 1)
    IN res(0)

\* calculate_latency_percentiles: the latencies sorted, cut into
\* PERCENTILE_BUCKETS slices, the mean of every slice that is not empty.  The
\* sum of a slice is a u32: the calls of one handle follow one another, so the
\* latencies retained in a window add up to little more than the window, in
\* milliseconds, and the sum does not wrap.
calculate_latency_percentiles(entries) ==
    LET u32_latencies ==
          SortSeq([i \in 1..Len(entries) |-> entries[i].duration_ms],
                  LAMBDA a, b : a < b)
        rough_bucket_size == Len(u32_latencies) \div PERCENTILE_BUCKETS
        additional_items == Len(u32_latencies) % PERCENTILE_BUCKETS
        starting_index(i) == i * rough_bucket_size + Min(i, additional_items)
        slice(i) == SubSeq(u32_latencies, starting_index(i) + 1, starting_index(i + 1))
        RECURSIVE res(_)
        res(i) ==
          IF i = PERCENTILE_BUCKETS THEN <<>>
          ELSE (IF slice(i) # <<>>
                THEN <<Quotient(SumSeq(slice(i)), Len(slice(i)))>>
                ELSE <<>>) \o res(i + 1)
    IN res(0)

\* The ComponentStats get_component_stats builds from the pruned queue.
ComponentStats(deque) ==
    IF deque = <<>>
    THEN [hits |-> 0, avg_response_bytes |-> Zero, avg_ms_latency |-> Zero,
          ms_latency_percentiles |-> <<>>]
    ELSE [hits |-> Len(deque),
          avg_response_bytes |->
            Quotient(SumSeq([i \in 1..Len(deque) |-> deque[i].response_bytes]), Len(deque)),
          avg_ms_latency |->
            Quotient(SumSeq([i \in 1..Len(deque) |-> deque[i].duration_ms]), Len(deque)),
          ms_latency_percentiles |-> calculate_latency_percentiles(deque)]

InitStats == event_deque = <<>> /\ inserted = <<>> /\ stats_result = <<>>

\* StatTracker::add_stat_event: the event is pushed with at = Instant::now(),
\* then old events are popped.
add_stat_event(durations, sizes, limit) ==
    /\ Len(inserted) < limit
    /\ \E d \in durations, b \in sizes :
         /\ event_deque' = pop_old_events(Append(event_deque, StatEvent(now, d, b)), now)
         /\ inserted' = Append(inserted, StatEvent(now, d, b))
    /\ stats_result' = <<>>
    /\ UNCHANGED <<core_vars, logs_vars, pool_vars, pipe_vars>>

\* StatTracker::get_component_stats: old events are popped, the rest is
\* summed up.
get_component_stats ==
    /\ stats_result = <<>>
    /\ event_deque' = pop_old_events(event_deque, now)
    /\ stats_result' = <<ComponentStats(event_deque')>>
    /\ UNCHANGED <<inserted, core_vars, logs_vars, pool_vars, pipe_vars>>

\* Instant::now() advances by a minute; the last snapshot is history.
StatsTick ==
    /\ now < MaxStatsTime
    /\ now' = now + 1
    /\ stats_result' = <<>>
    /\ UNCHANGED <<budget, active_components, readers, writer, procs, pc, req,
                   todo, collected, write_idx, call_resp, outcome, hb_pc, hb_todo>>
    /\ UNCHANGED <<event_deque, inserted, logs_vars, pool_vars, pipe_vars>>

(* ----------------------- component/logs.rs: LogTracker ----------------- *)

\* An AtomicU64::load where fetch_add was meant: the counter stays.
FetchNoAdd(counter) == [previous |-> counter, counter |-> counter]

\* AtomicU64::fetch_add(1, SeqCst): the previous value, and the counter after.
FetchAdd(counter) == [previous |-> counter, counter |-> counter + 1]

\* A LogTracker; `installed` counts the policies create_associated_policy has
\* installed in it.
LogTracker(dedup_number, policy_handle, installed) ==
    [dedup_number |-> dedup_number, policy_handle |-> policy_handle,
     installed |-> installed]

InitLogs == DEDUP_COUNTER = 0 /\ log_trackers = <<>> /\ log_seen = <<>>

\* LogTracker::new.
LogTrackerNew ==
    /\ Len(log_trackers) < MaxTrackers
    /\ DEDUP_COUNTER < MaxGenerations
    /\ LET f == FetchAdd(DEDUP_COUNTER) IN
       /\ log_trackers' = Append(log_trackers, LogTracker(f.previous, "Ignore", 0))
       /\ DEDUP_COUNTER' = f.counter
    /\ log_seen' = Append(log_seen, <<>>)
    /\ UNCHANGED <<core_vars, stats_vars, pool_vars, pipe_vars>>

\* LogTracker::create_associated_policy: the temporary file cannot be made
\* and nothing changes, or the policy is replaced and a new dedup_number drawn.
create_associated_policy(k) ==
    /\ k <= Len(log_trackers)
    /\ \/ UNCHANGED <<log_trackers, DEDUP_COUNTER>>
       \/ /\ DEDUP_COUNTER < MaxGenerations
          /\ LET f == FetchAdd(DEDUP_COUNTER) IN
             /\ log_trackers' = [log_trackers EXCEPT ![k] =
                  LogTracker(f.previous, "ToFile", @.installed + 1)]
             /\ DEDUP_COUNTER' = f.counter
    /\ UNCHANGED <<log_seen, core_vars, stats_vars, pool_vars, pipe_vars>>

\* LogTracker::get_contents: the dedup_number is reported with the contents.
get_contents(k) ==
    /\ k <= Len(log_trackers)
    /\ Len(log_seen[k]) < MaxSeen
    /\ log_seen' = [log_seen EXCEPT ![k] =
         Append(@, [generation |-> log_trackers[k].dedup_number,
                    installed |-> log_trackers[k].installed])]
    /\ UNCHANGED <<log_trackers, DEDUP_COUNTER, core_vars, stats_vars, pool_vars, pipe_vars>>

(* --------------- docker/idle_container_creator.rs: the pool ------------ *)

CONTAINER_CACHE_CHANNEL_SIZE == 3
CACHE_POPULATOR_COUNT == 2

Populators == 1..CACHE_POPULATOR_COUNT
Acquirers == {"a1", "a2"}

\* A channel that never makes its senders wait.
ChannelUnbounded(chan) == TRUE

\* SyncSender::send goes through when the buffer has room.
ChannelHasRoom(chan) == Len(chan) < CONTAINER_CACHE_CHANNEL_SIZE

\* A try_recv that leaves the container in the channel.
try_peek(chan) ==
    IF chan = <<>> THEN [item |-> <<>>, chan |-> chan]
    ELSE [item |-> <<Head(chan)>>, chan |-> chan]

\* Receiver::try_recv().ok(): the first buffered container, if there is one.
try_recv(chan) ==
    IF chan = <<>> THEN [item |-> <<>>, chan |-> chan]
    ELSE [item |-> <<Head(chan)>>, chan |-> Tail(chan)]

\* A caller of get_idle_container: where it is, what try_lock gave it in this
\* call, the container it is creating, the containers it was handed so far.
Acquirer(position, guard, making, owned) ==
    [pc |-> position, try_lock |-> guard, making |-> making, owned |-> owned]

InitPool ==
    /\ cache_channel = <<>>
    /\ populators = [i \in Populators |-> [pc |-> "create", held |-> <<>>]]
    /\ receiver_lock = <<>>
    /\ acquirers = [a \in Acquirers |-> Acquirer("idle", "", <<>>, {})]
    /\ containers = 0

\* A populator thread: sync_create_container returns a container, or fails.
PopulatorCreate(i) ==
    /\ populators[i].pc = "create"
    /\ \/ /\ containers < MaxContainers
          /\ containers' = containers + 1
          /\ populators' = [populators EXCEPT ![i] = [pc |-> "send", held |-> <<containers'>>]]
       \/ /\ populators' = [populators EXCEPT ![i].pc = "sleep"]
          /\ UNCHANGED containers
    /\ UNCHANGED <<cache_channel, receiver_lock, acquirers, core_vars, stats_vars,
                   logs_vars, pipe_vars>>

\* A populator thread that ends with its first failure.
PopulatorGivesUp(i) ==
    /\ populators[i].pc = "sleep"
    /\ populators' = [populators EXCEPT ![i].pc = "gone"]
    /\ UNCHANGED <<cache_channel, receiver_lock, acquirers, containers, core_vars,
                   stats_vars, logs_vars, pipe_vars>>

\* A populator thread after a failure: thread::sleep returns.
PopulatorSleep(i) ==
    /\ populators[i].pc = "sleep"
    /\ populators' = [populators EXCEPT ![i].pc = "create"]
    /\ UNCHANGED <<cache_channel, receiver_lock, acquirers, containers, core_vars,
                   stats_vars, logs_vars, pipe_vars>>

\* A populator thread: sender.send(id) returns, which it does once the
\* channel has room.
PopulatorSend(i) ==
    /\ populators[i].pc = "send"
    /\ ChannelHasRoom(cache_channel)
    /\ cache_channel' = Append(cache_channel, populators[i].held[1])
    /\ populators' = [populators EXCEPT ![i] = [pc |-> "create", held |-> <<>>]]
    /\ UNCHANGED <<receiver_lock, acquirers, containers, core_vars, stats_vars,
                   logs_vars, pipe_vars>>

\* get_idle_container: cache_channel_receiver.try_lock().  Without the lock
\* the result is None and a container is created inline.
AcquireTryLock(a) ==
    /\ acquirers[a].pc = "idle"
    /\ IF receiver_lock = <<>>
       THEN /\ receiver_lock' = <<a>>
            /\ acquirers' = [acquirers EXCEPT ![a].pc = "try_recv", ![a].try_lock = "Some"]
       ELSE /\ acquirers' = [acquirers EXCEPT ![a].pc = "create", ![a].try_lock = "None"]
            /\ UNCHANGED receiver_lock
    /\ UNCHANGED <<cache_channel, populators, containers, core_vars, stats_vars,
                   logs_vars, pipe_vars>>

\* get_idle_container: chan.try_recv().ok() under the lock; the guard is
\* dropped.  Some(id) is returned to the caller, None creates inline.
AcquireTryRecv(a) ==
    /\ acquirers[a].pc = "try_recv"
    /\ LET r == try_recv(cache_channel) IN
       /\ cache_channel' = r.chan
       /\ acquirers' = [acquirers EXCEPT ![a] =
            IF r.item # <<>>
            THEN Acquirer("idle", "", <<>>, @.owned \cup {r.item[1]})
            ELSE [@ EXCEPT !.pc = "create"]]
    /\ receiver_lock' = <<>>
    /\ UNCHANGED <<populators, containers, core_vars, stats_vars, logs_vars, pipe_vars>>

\* get_idle_container: sync_create_container starts a container with docker
\* run, or fails and get_idle_container returns the error.
AcquireCreate(a) ==
    /\ acquirers[a].pc = "create"
    /\ \/ /\ containers < MaxContainers
          /\ containers' = containers + 1
          /\ acquirers' = [acquirers EXCEPT ![a].pc = "created", ![a].making = <<containers'>>]
       \/ /\ acquirers' = [acquirers EXCEPT ![a].pc = "idle", ![a].try_lock = ""]
          /\ UNCHANGED containers
    /\ UNCHANGED <<cache_channel, populators, receiver_lock, core_vars, stats_vars,
                   logs_vars, pipe_vars>>

\* get_idle_container: sync_create_container returns the Container and
\* get_idle_container hands it to its caller.
AcquireReturn(a) ==
    /\ acquirers[a].pc = "created"
    /\ acquirers' = [acquirers EXCEPT ![a] =
         Acquirer("idle", "", <<>>, @.owned \cup {@.making[1]})]
    /\ UNCHANGED <<cache_channel, populators, receiver_lock, containers, core_vars,
                   stats_vars, logs_vars, pipe_vars>>

(* ------------------------ named_pipe.rs: NamedPipe --------------------- *)

Bytes == {"a", "b", "\n"}

\* The byte strings of at most n bytes.
RECURSIVE Payloads(_)
Payloads(n) ==
    IF n = 0 THEN {<<>>}
    ELSE LET shorter == Payloads(n - 1) IN
         shorter \cup {Append(v, b) : v \in {w \in shorter : Len(w) = n - 1}, b \in Bytes}

\* A contains that finds nothing.
ContainsNothing(v, byte) == FALSE

\* v.contains(&byte).
Contains(v, byte) == \E i \in 1..Len(v) : v[i] = byte

\* A NamedPipe: whether its two FIFO files are open, and the bytes written to
\* the component's input FIFO: those in it when the current call began and
\* those written since.
NamedPipe(c_in, c_out, fifo) ==
    [component_input_fifo_file |-> c_in, component_output_fifo_file |-> c_out,
     fifo |-> fifo]

\* A call of NamedPipe::write: its argument, the buffer it sends, its cursor,
\* whether its deadline has passed, the pipe as the call found it, and what
\* it returned.
WriteCall(calls, position, v, buf, before, result) ==
    [calls |-> calls, pc |-> position, v |-> v, buf |-> buf, write_idx |-> 0,
     expired |-> FALSE, before |-> before, result |-> result]

\* A call of NamedPipe::read inside query: the bytes it has collected,
\* whether its deadline has passed, and what it returned.  all_ok tells
\* whether every query on the pipe before the current one returned Ok.
ReadCall(position, result, ret, all_ok) ==
    [pc |-> position, result |-> result, expired |-> FALSE, ret |-> ret,
     all_ok |-> all_ok]

\* The process at the other end of the FIFOs: a loopback that reads a line
\* and writes back its upper case as one line, or one that has opened the
\* FIFOs and never reads.  pos counts the bytes it has taken from the input
\* FIFO, out is the content of the output FIFO.
Peer(mode, pos, line, to_send, out) ==
    [mode |-> mode, pos |-> pos, line |-> line, to_send |-> to_send, out |-> out]

PeerModes == {"loopback", "never_reads"}

Upper(byte) ==
    CASE byte = "a" -> "A"
      [] byte = "b" -> "B"
      [] OTHER -> byte

\* The bytes waiting in the input FIFO, and the room that is left in it.
InputFifo == SubSeq(pipe.fifo, peer.pos + 1, Len(pipe.fifo))
InputRoom == FifoCapacity - Len(InputFifo)

InitPipe ==
    /\ pipe = NamedPipe(FALSE, FALSE, <<>>)
    /\ write_call = WriteCall(0, "returned", <<>>, <<>>, pipe, <<"none">>)
    /\ read_call = ReadCall("idle", <<>>, <<"none">>, TRUE)
    /\ peer = Peer("loopback", 0, <<>>, <<>>, <<>>)

\* NamedPipe::query has returned: write failed, or read has returned.
QueryReturned ==
    /\ write_call.pc = "returned"
    /\ write_call.result # <<"Ok">> \/ read_call.pc = "returned"

\* What the last query returned.
QueryResult == IF write_call.result # <<"Ok">> THEN write_call.result ELSE read_call.ret

\* NamedPipe::query calls write with v: a v with a newline is returned at
\* once, any other gets its newline and write goes on to get_fds.  The bytes
\* the peer has taken from the FIFO before the call are forgotten.  The owner
\* of a pipe drops it when a query has failed (isolation.rs, query_process);
\* the model lets one more query follow the first failed one.
WriteEnter(v) ==
    /\ QueryReturned
    /\ write_call.calls < MaxWrites
    /\ read_call.all_ok
    /\ pipe' = [pipe EXCEPT !.fifo = InputFifo]
    /\ peer' = [peer EXCEPT !.pos = 0]
    /\ write_call' =
         IF Contains(v, "\n")
         THEN WriteCall(write_call.calls + 1, "returned", v, <<>>, pipe',
                        <<"InvalidSerialization", "contains newline", v>>)
         ELSE WriteCall(write_call.calls + 1, "get_fds", v, Append(v, "\n"), pipe',
                        <<"none">>)
    /\ read_call' = ReadCall("idle", <<>>, <<"none">>,
                             read_call.all_ok /\ QueryResult[1] \in {"none", "Ok"})
    /\ UNCHANGED <<core_vars, stats_vars, logs_vars, pool_vars>>

\* NamedPipe::get_fds: each FIFO that is not open yet is opened, or is not
\* before the deadline; both open lets write go on.
WriteGetFds ==
    /\ write_call.pc = "get_fds"
    /\ \E c_in \in {TRUE, pipe.component_input_fifo_file},
          c_out \in {TRUE, pipe.component_output_fifo_file} :
         /\ pipe' = [pipe EXCEPT !.component_input_fifo_file = c_in,
                                 !.component_output_fifo_file = c_out]
         /\ write_call' =
              IF c_in /\ c_out
              THEN [write_call EXCEPT !.pc = "writing"]
              ELSE [write_call EXCEPT !.pc = "returned",
                      !.result = <<"OperationTimedOut", "fifo pipe opening">>]
    /\ UNCHANGED <<read_call, peer, core_vars, stats_vars, logs_vars, pool_vars>>

\* Instant::now() passes the deadline of the write or read in progress.
DeadlinePasses ==
    /\ \/ /\ write_call.pc \in {"writing", "poll"}
          /\ ~write_call.expired
          /\ write_call' = [write_call EXCEPT !.expired = TRUE]
          /\ UNCHANGED read_call
       \/ /\ read_call.pc = "reading"
          /\ ~read_call.expired
          /\ read_call' = [read_call EXCEPT !.expired = TRUE]
          /\ UNCHANGED write_call
    /\ UNCHANGED <<pipe, peer, core_vars, stats_vars, logs_vars, pool_vars>>

\* NamedPipe::write, the loop's condition holds: bytes are left and the
\* deadline has not passed, so poll is called.
WritePoll ==
    /\ write_call.pc = "writing"
    /\ write_call.write_idx < Len(write_call.buf)
    /\ ~write_call.expired
    /\ write_call' = [write_call EXCEPT !.pc = "poll"]
    /\ UNCHANGED <<pipe, read_call, peer, core_vars, stats_vars, logs_vars, pool_vars>>

\* NamedPipe::write, the loop's body: poll returns when the FIFO can take
\* bytes or when its timeout, the rest of the deadline, has run out; what poll
\* returned is not looked at and write(2) is called.  On the O_NONBLOCK
\* descriptor it takes the bytes there is room for, or fails with EAGAIN when
\* the FIFO is full.
WriteSome ==
    /\ write_call.pc = "poll"
    /\ InputRoom > 0 \/ write_call.expired
    /\ IF InputRoom > 0
       THEN \E written_bytes \in
                 1..Min(InputRoom, Len(write_call.buf) - write_call.write_idx) :
              /\ pipe' = [pipe EXCEPT !.fifo = @ \o
                   SubSeq(write_call.buf, write_call.write_idx + 1,
                          write_call.write_idx + written_bytes)]
              /\ write_call' = [write_call EXCEPT !.pc = "writing",
                                  !.write_idx = @ + written_bytes]
       ELSE /\ write_call' = [write_call EXCEPT !.pc = "returned",
                                 !.result = <<"Nix", "EAGAIN">>]
            /\ UNCHANGED pipe
    /\ UNCHANGED <<read_call, peer, core_vars, stats_vars, logs_vars, pool_vars>>

\* NamedPipe::write after the loop: everything was written, or the deadline
\* passed first.
WriteReturn ==
    /\ write_call.pc = "writing"
    /\ write_call.write_idx = Len(write_call.buf) \/ write_call.expired
    /\ write_call' = [write_call EXCEPT !.pc = "returned", !.result =
         IF write_call.write_idx < Len(write_call.buf)
         THEN <<"OperationTimedOut", "pipe writing">>
         ELSE <<"Ok">>]
    /\ UNCHANGED <<pipe, read_call, peer, core_vars, stats_vars, logs_vars, pool_vars>>

\* NamedPipe::query after write returned Ok: read is called; get_fds finds
\* both FIFOs open.
ReadEnter ==
    /\ write_call.pc = "returned"
    /\ write_call.result = <<"Ok">>
    /\ read_call.pc = "idle"
    /\ read_call' = [read_call EXCEPT !.pc = "reading"]
    /\ UNCHANGED <<pipe, write_call, peer, core_vars, stats_vars, logs_vars, pool_vars>>

\* The bytes of chunk up to and including its first newline, all of it if it
\* has none.
UpToNewline(chunk) ==
    IF Contains(chunk, "\n")
    THEN SubSeq(chunk, 1, CHOOSE j \in 1..Len(chunk) :
                            chunk[j] = "\n" /\ \A i \in 1..(j - 1) : chunk[i] # "\n")
    ELSE chunk

\* A read that keeps the line's bytes and leaves the newline out.
WithoutNewline(chunk) == SelectSeq(UpToNewline(chunk), LAMBDA byte : byte # "\n")

\* What read pushes on its result from the chunk read(2) gave it.
Pushed(chunk) == UpToNewline(chunk)

\* NamedPipe::read, one turn of the loop: poll returns when there are bytes
\* or when the deadline has passed; past the deadline read fails; otherwise
\* read(2) gives up to BUF_SIZE bytes, which are pushed on the result up to
\* the first newline, where read returns.
ReadSome ==
    /\ read_call.pc = "reading"
    /\ peer.out # <<>> \/ read_call.expired
    /\ IF read_call.expired
       THEN /\ read_call' = [read_call EXCEPT !.pc = "returned",
                               !.ret = <<"OperationTimedOut", "pipe reading">>]
            /\ UNCHANGED peer
       ELSE \E n \in 1..Min(BUF_SIZE, Len(peer.out)) :
              LET chunk == SubSeq(peer.out, 1, n) IN
              /\ peer' = [peer EXCEPT !.out = SubSeq(@, n + 1, Len(@))]
              /\ read_call' =
                   IF Contains(chunk, "\n")
                   THEN [read_call EXCEPT !.pc = "returned",
                           !.result = @ \o Pushed(chunk), !.ret = <<"Ok">>]
                   ELSE [read_call EXCEPT !.result = @ \o Pushed(chunk)]
    /\ UNCHANGED <<pipe, write_call, core_vars, stats_vars, logs_vars, pool_vars>>

\* The loopback peer reads a byte of its input; with the newline it has a
\* line, and its answer is the line in upper case.
PeerRead ==
    /\ peer.mode = "loopback"
    /\ peer.to_send = <<>>
    /\ InputFifo # <<>>
    /\ LET byte == Head(InputFifo) IN
       peer' = IF byte = "\n"
               THEN [peer EXCEPT !.pos = @ + 1, !.line = <<>>,
                       !.to_send = [i \in 1..Len(peer.line) |-> Upper(peer.line[i])]
                                     \o <<"\n">>]
               ELSE [peer EXCEPT !.pos = @ + 1, !.line = Append(@, byte)]
    /\ UNCHANGED <<pipe, write_call, read_call, core_vars, stats_vars, logs_vars, pool_vars>>

\* The loopback peer writes to the output FIFO what it takes of its answer.
PeerWrite ==
    /\ peer.to_send # <<>>
    /\ Len(peer.out) < FifoCapacity
    /\ LET n == Min(FifoCapacity - Len(peer.out), Len(peer.to_send)) IN
         peer' = [peer EXCEPT !.out = @ \o SubSeq(peer.to_send, 1, n),
                              !.to_send = SubSeq(@, n + 1, Len(@))]
    /\ UNCHANGED <<pipe, write_call, read_call, core_vars, stats_vars, logs_vars, pool_vars>>

InitLib == InitStats /\ InitLogs /\ InitPool /\ InitPipe

(* ------------------------------- Init ---------------------------------- *)

EmptyRegistry == [p \in {} |-> 0]

InitCore ==
    /\ now = 0
    /\ active_components = EmptyRegistry
    /\ readers = {}
    /\ writer = <<>>
    /\ procs = <<>>
    /\ pc = [t \in Threads |-> "idle"]
    /\ req = [t \in Threads |-> NoRequest]
    /\ todo = [t \in Threads |-> <<>>]
    /\ collected = [t \in Threads |-> {}]
    /\ write_idx = [t \in Threads |-> 0]
    /\ call_resp = [t \in Threads |-> <<>>]
    /\ outcome = [t \in Threads |-> Pending]
    /\ hb_pc = "sleep"
    /\ hb_todo = <<>>

InitCommon == InitCore /\ InitLib

Init == InitCommon /\ budget = MaxRequests

\* HashMap::values(): the handles in an order of the map's choosing.
IterationOrders(ac) ==
    {s \in [1..Cardinality(DOMAIN ac) -> DOMAIN ac] :
       \A p \in DOMAIN ac : \E i \in DOMAIN s : s[i] = p}

(* ------------------ the locks (parking_lot RwLock, Mutex) -------------- *)

\* Threads blocked in serverless_component_manager.write()
WritersWaiting == {t \in Threads : pc[t] = "wait_write"}

\* A reader-preferring lock, which lets readers in past a waiting writer.
ReadLockUnfair == writer = <<>>

\* RwLock::read() returns: no writer holds the lock and none is waiting for it
\* (parking_lot's task-fair policy: a waiting writer holds back new readers).
ReadLockFree == writer = <<>> /\ WritersWaiting = {}

\* A write lock that does not wait for the readers to leave.
WriteLockPastReaders == writer = <<>>

\* RwLock::write() returns: nobody holds the lock.
WriteLockFree == writer = <<>> /\ readers = {}

\* A handle taken without its mutex.
HandleLockIgnored(handle) == TRUE

\* A MutexGuard that outlives the expression it was taken in.
GuardKept(handle) == handle

\* The MutexGuard of a handle is dropped.
GuardDropped(handle) == [handle EXCEPT !.lock = "free"]

\* component.lock() by agent a.
Locked(handle, a) == [handle EXCEPT !.lock = a]

\* A handle of the registry is changed through its guard.
SetHandle(p, handle) ==
    active_components' = [active_components EXCEPT ![p] = handle]

\* Mutex::lock() returns / Mutex::try_lock() gives Some.
HandleLockFree(handle) == handle.lock = "free"

(* -------------- request_handler.rs: the entrypoint and routes ---------- *)

\* Where HttpRequestHandler::handle / handle_meta_request takes a request.
FirstPc(kind) ==
    CASE kind \in {"activate", "deactivate", "bad_activate", "bad_deactivate", "logs"}
           -> "wait_write"
      [] kind \in {"status", "invoke"} -> "wait_read"
      [] OTHER -> "done"

\* A request ends: global_request_entrypoint returns o.
Finish(t, o) ==
    /\ pc' = [pc EXCEPT ![t] = "done"]
    /\ outcome' = [outcome EXCEPT ![t] = o]

\* The task that served the request is gone; the thread takes the next one.
Return(t) ==
    /\ pc[t] = "done"
    /\ pc' = [pc EXCEPT ![t] = "idle"]
    /\ req' = [req EXCEPT ![t] = NoRequest]
    /\ outcome' = [outcome EXCEPT ![t] = Pending]
    /\ collected' = [collected EXCEPT ![t] = {}]
    /\ UNCHANGED <<now, budget, active_components, readers, writer, procs, todo,
                   write_idx, call_resp, hb_pc, hb_todo>>
    /\ UNCHANGED lib_vars

\* global_request_entrypoint up to the routing in handle: the body is read;
\* a request for no route or with the wrong verb ends at once.
StartRequest(t, menu, bodies) ==
    /\ pc[t] = "idle"
    /\ budget > 0
    /\ budget' = budget - 1
    /\ \E r \in menu, b \in bodies :
         /\ req' = [req EXCEPT ![t] = r]
         /\ IF b # "ok"
            THEN Finish(t, EntrypointFailed(b))
            ELSE
              /\ pc' = [pc EXCEPT ![t] = FirstPc(r.kind)]
              /\ outcome' = [outcome EXCEPT ![t] =
                   CASE r.kind = "wrong_verb" -> HandlerReturned(CallErr("WrongMethod"))
                     [] r.kind = "no_route" -> HandlerReturned(CallErr("PathNotFound"))
                     [] OTHER -> Pending]
    /\ UNCHANGED <<now, active_components, readers, writer, procs, todo, collected,
                   write_idx, call_resp, hb_pc, hb_todo>>
    /\ UNCHANGED lib_vars

\* component_manager.write() returns.
AcquireWrite(t) ==
    /\ pc[t] = "wait_write"
    /\ WriteLockFree
    /\ writer' = <<t>>
    /\ pc' = [pc EXCEPT ![t] = IF req[t].kind = "logs" THEN "logs_walk" ELSE "write_op"]
    /\ \E order \in IterationOrders(active_components) :
         todo' = [todo EXCEPT ![t] = IF req[t].kind = "logs" THEN order ELSE <<>>]
    /\ UNCHANGED <<now, budget, active_components, readers, procs, req, collected,
                   write_idx, call_resp, outcome, hb_pc, hb_todo>>
    /\ UNCHANGED lib_vars

\* handle_meta_request, ("activate", POST): activate under the write lock,
\* the lock released, 200 with the JSON ActivateResponse.
MetaActivate(t) ==
    /\ pc[t] = "write_op"
    /\ req[t].kind \in {"activate", "bad_activate"}
    /\ \E ctor \in ControllerOutcomes(req[t].method) :
         LET res == IF req[t].kind = "bad_activate"
                    THEN [ac |-> active_components, result |-> "invalid-request"]
                    ELSE Activate(active_components, req[t], ctor, now)
         IN /\ active_components' = res.ac
            /\ Finish(t, HandlerReturned(CallOk(res.result, 200, res.result)))
    /\ writer' = <<>>
    /\ UNCHANGED <<now, budget, readers, procs, req, todo, collected, write_idx, call_resp,
                   hb_pc, hb_todo>>
    /\ UNCHANGED lib_vars

\* handle_meta_request, ("deactivate", POST): the removed handle is dropped
\* inside deactivate, and with it the process handle its wrapper holds.
MetaDeactivate(t) ==
    /\ pc[t] = "write_op"
    /\ req[t].kind \in {"deactivate", "bad_deactivate"}
    /\ LET res == IF req[t].kind = "bad_deactivate"
                  THEN [ac |-> active_components, dropped |-> <<>>,
                        result |-> "invalid-request"]
                  ELSE Deactivate(active_components, req[t])
       IN /\ active_components' = res.ac
          /\ procs' = IF res.dropped = <<>> THEN procs
                      ELSE DropProcessHandle(procs, res.dropped[1].process_handle)
          /\ Finish(t, HandlerReturned(CallOk(res.result, 200, res.result)))
    /\ writer' = <<>>
    /\ UNCHANGED <<now, budget, readers, req, todo, collected, write_idx, call_resp,
                   hb_pc, hb_todo>>
    /\ UNCHANGED lib_vars

\* ComponentManager::logs, one handle of the walk: lock, get_component_log,
\* unlock.
LogsVisit(t) ==
    /\ pc[t] = "logs_walk"
    /\ todo[t] # <<>>
    /\ LET p == Head(todo[t]) IN
         /\ HandleLockFree(active_components[p])
         /\ SetHandle(p, GuardDropped(Locked(active_components[p], t)))
    /\ todo' = [todo EXCEPT ![t] = Tail(@)]
    /\ UNCHANGED <<now, budget, readers, writer, procs, pc,
                   req, collected, write_idx, call_resp, outcome, hb_pc, hb_todo>>
    /\ UNCHANGED lib_vars

\* handle_meta_request, ("logs", GET): the walk is over, the write lock is
\* released.
LogsDone(t) ==
    /\ pc[t] = "logs_walk"
    /\ todo[t] = <<>>
    /\ writer' = <<>>
    /\ Finish(t, HandlerReturned(CallOk("logs", 200, "logs")))
    /\ UNCHANGED <<now, budget, active_components, readers, procs, req, todo, collected,
                   write_idx, call_resp, hb_pc, hb_todo>>
    /\ UNCHANGED lib_vars

\* handle_meta_request, ("status", GET): component_manager.read() returns.
StatusStart(t) ==
    /\ pc[t] = "wait_read"
    /\ req[t].kind = "status"
    /\ ReadLockFree
    /\ readers' = readers \cup {t}
    /\ pc' = [pc EXCEPT ![t] = "status_walk"]
    /\ \E order \in IterationOrders(active_components) :
         todo' = [todo EXCEPT ![t] = order]
    /\ UNCHANGED <<now, budget, active_components, writer, procs, req, collected,
                   write_idx, call_resp, outcome, hb_pc, hb_todo>>
    /\ UNCHANGED lib_vars

\* ComponentManager::status, one handle of the walk:
\* component_handle.lock().get_component_status(), the guard dropped.
StatusVisit(t) ==
    /\ pc[t] = "status_walk"
    /\ todo[t] # <<>>
    /\ LET p == Head(todo[t]) IN
         /\ HandleLockFree(active_components[p])
         /\ collected' = [collected EXCEPT ![t] =
                            @ \cup {ComponentStatus(p, active_components[p])}]
         /\ SetHandle(p, GuardDropped(Locked(active_components[p], t)))
    /\ todo' = [todo EXCEPT ![t] = Tail(@)]
    /\ UNCHANGED <<now, budget, readers, writer, procs, pc,
                   req, write_idx, call_resp, outcome, hb_pc, hb_todo>>
    /\ UNCHANGED lib_vars

\* The status walk is over: the read lock is released, 200.
StatusDone(t) ==
    /\ pc[t] = "status_walk"
    /\ todo[t] = <<>>
    /\ readers' = readers \ {t}
    /\ Finish(t, HandlerReturned(CallOk("status", 200, "status")))
    /\ UNCHANGED <<now, budget, active_components, writer, procs, req, todo, collected,
                   write_idx, call_resp, hb_pc, hb_todo>>
    /\ UNCHANGED lib_vars

(* ---------------- the serverless route: one invocation ---------------- *)

\* The handle a thread's invoke is about.
HandleOf(t) == active_components[req[t].path]

\* request_handler.rs: the colour kept for a call's result.
ColorOf(call) ==
    IF call.err # "none" THEN "Red"
    ELSE LET s == call.resp.status IN
         IF (200 <= s /\ s < 300) \/ (300 <= s /\ s < 400) THEN "Green"
         ELSE IF (500 <= s /\ s < 600) \/ s = 543 THEN "Red"
         ELSE "Orange"

\* HttpRequestHandler::handle, the sl branch: read() returns and the component
\* is looked up.  An unknown component ends the request (the read guard is
\* dropped on return); a known one is locked next, the read guard still held.
InvokeLookup(t) ==
    /\ pc[t] = "wait_read"
    /\ req[t].kind = "invoke"
    /\ ReadLockFree
    /\ IF ContainsKey(active_components, req[t])
       THEN /\ readers' = readers \cup {t}
            /\ pc' = [pc EXCEPT ![t] = "lock_handle"]
            /\ UNCHANGED outcome
       ELSE /\ Finish(t, HandlerReturned(CallErr("PathNotFound")))
            /\ UNCHANGED readers
    /\ UNCHANGED <<now, budget, active_components, writer, procs, req, todo, collected,
                   write_idx, call_resp, hb_pc, hb_todo>>
    /\ UNCHANGED lib_vars

\* component_handle.lock() returns.
InvokeLock(t) ==
    /\ pc[t] = "lock_handle"
    /\ HandleLockFree(HandleOf(t))
    /\ SetHandle(req[t].path, Locked(HandleOf(t), t))
    /\ pc' = [pc EXCEPT ![t] = "query"]
    /\ UNCHANGED <<now, budget, readers, writer, procs, req, todo, collected, write_idx,
                   call_resp, outcome, hb_pc, hb_todo>>
    /\ UNCHANGED lib_vars

\* IsolatedProcessWrapper::query_process, up to the handle's query:
\* last_accessed is set, and a wrapper without a process handle boots one.
QueryBoot(t) ==
    /\ pc[t] = "query"
    /\ LET h == Touched(HandleOf(t), now) IN
       IF NeedsBoot(h)
       THEN \E b \in BootOutcomes(h.method) :
              IF b = "ok"
              THEN /\ procs' = Append(procs, "running")
                   /\ SetHandle(req[t].path,
                        [h EXCEPT !.process_handle = <<NewProcessHandle(Len(procs) + 1)>>])
                   /\ pc' = [pc EXCEPT ![t] = "poll"]
                   /\ UNCHANGED call_resp
              ELSE /\ SetHandle(req[t].path, BootFailed(h))
                   /\ call_resp' = [call_resp EXCEPT ![t] = <<CallErr(b)>>]
                   /\ pc' = [pc EXCEPT ![t] = "set_color"]
                   /\ UNCHANGED procs
       ELSE /\ SetHandle(req[t].path, h)
            /\ pc' = [pc EXCEPT ![t] = "poll"]
            /\ UNCHANGED <<procs, call_resp>>
    /\ UNCHANGED <<now, budget, readers, writer, req, todo, collected, write_idx, outcome,
                   hb_pc, hb_todo>>
    /\ UNCHANGED lib_vars

\* A query_process that returns the handle's error and keeps the handle.
QueryFailedKeepingHandle(t, kind) ==
    /\ UNCHANGED <<active_components, procs>>
    /\ call_resp' = [call_resp EXCEPT ![t] = <<CallErr(kind)>>]
    /\ pc' = [pc EXCEPT ![t] = "set_color"]

\* IsolatedProcessWrapper::query_process, `if resp.is_err()`: the process
\* handle is cleared (and so dropped) and the error is the call's result.
QueryFailed(t, kind) ==
    /\ SetHandle(req[t].path, [HandleOf(t) EXCEPT !.process_handle = <<>>])
    /\ procs' = DropProcessHandle(procs, HandleOf(t).process_handle)
    /\ call_resp' = [call_resp EXCEPT ![t] = <<CallErr(kind)>>]
    /\ pc' = [pc EXCEPT ![t] = "set_color"]

\* PipedProcessHandle / ContainerizedProcessHandle ::query_process: the
\* subprocess is polled; one that has exited fails the query.
HandlePoll(t) ==
    /\ pc[t] = "poll"
    /\ IF HasExited(procs, HandleOf(t).process_handle[1].pid)
       THEN /\ QueryFailed(t, "SubprocessTerminated")
            /\ UNCHANGED write_idx
       ELSE /\ pc' = [pc EXCEPT ![t] = "pipe_write"]
            /\ write_idx' = [write_idx EXCEPT ![t] = 0]
            /\ UNCHANGED <<active_components, procs, call_resp>>
    /\ UNCHANGED <<now, budget, readers, writer, req, todo, collected, outcome, hb_pc, hb_todo>>
    /\ UNCHANGED lib_vars

\* The bytes NamedPipe::write sends for thread t's request: the payload, then
\* the newline.  Each byte carries its writer.
RequestLine(t) == << <<"payload", t>>, <<"newline", t>> >>

SubSeqFrom(s, i, n) == SubSeq(s, i + 1, i + n)

\* NamedPipe::write: get_fds on first use, then one pass of the poll-and-write
\* loop (a write may be partial), or the deadline.
PipeWrite(t) ==
    /\ pc[t] = "pipe_write"
    /\ LET h == HandleOf(t)
           ph == h.process_handle[1]
           v == RequestLine(t)
       IN \/ \* the FIFOs open (if they were not) and write() takes n bytes
             /\ ph.fds \/ procs[ph.pid] = "running"
             /\ \E n \in 1..(Len(v) - write_idx[t]) :
                  /\ SetHandle(req[t].path,
                       [h EXCEPT !.process_handle =
                          <<[ph EXCEPT !.fds = TRUE,
                                       !.fin = @ \o SubSeqFrom(v, write_idx[t], n)]>>])
                  /\ write_idx' = [write_idx EXCEPT ![t] = @ + n]
                  /\ pc' = [pc EXCEPT ![t] =
                       IF write_idx[t] + n = Len(v) THEN "pipe_read" ELSE "pipe_write"]
             /\ UNCHANGED <<procs, call_resp>>
          \/ \* get_fds or the write loop runs into its deadline, or write fails
             /\ \E kind \in {"OperationTimedOut", "Nix"} : QueryFailed(t, kind)
             /\ UNCHANGED write_idx
    /\ UNCHANGED <<now, budget, readers, writer, req, todo, collected, outcome, hb_pc, hb_todo>>
    /\ UNCHANGED lib_vars

\* handle_component_call after query_process returned a line: the line is
\* decoded and turned into the response; a response without error_message is
\* recorded in the stat tracker.
Decoded(answer) ==
    CASE answer = "ok200" -> CallOk("", 200, "response_body")
      [] answer = "ok404" -> CallOk("", 404, "response_body")
      [] answer = "err500" -> CallOk("", 500, "error_message")
      [] answer = "undecodable" -> CallErr("InternalJsonHandling")
      [] answer = "badpercent" -> CallErr("InvalidUtf8")
      [] answer = "bigstatus" -> CallErr("IntegerConversion")

\* A tracker that records an event for every line read.
RecordsEveryLine(answer) == TRUE

\* add_stat_event is reached by a decoded response without error_message.
RecordsStat(answer) == answer \in {"ok200", "ok404"}

\* A read that has no deadline: it ends only when the component closed its end.
ReadWithoutDeadline(ps, ph) ==
    IF ps[ph.pid] # "running" THEN {"PipeDisconnected"} ELSE {}

\* NamedPipe::read with no line to read: the loop ends at its deadline, or
\* earlier when the component closed its end.
ReadErrors(ps, ph) ==
    {"OperationTimedOut"} \cup
      (IF ps[ph.pid] # "running" THEN {"PipeDisconnected"} ELSE {})

\* NamedPipe::read and the rest of handle_component_call: a line is there and
\* is read, or the deadline passes, or the component closed its end.
PipeRead(t) ==
    /\ pc[t] = "pipe_read"
    /\ LET h == HandleOf(t)
           ph == h.process_handle[1]
       IN IF ph.fout # <<>>
          THEN LET answer == Head(ph.fout).answer
                   h2 == [h EXCEPT !.process_handle = <<[ph EXCEPT !.fout = Tail(@)]>>]
               IN CASE answer = "badutf8" ->
                         /\ QueryFailed(t, "InvalidUtf8")
                         /\ UNCHANGED <<readers, outcome>>
                    [] answer = "badstatus" ->
                         \* Response::builder()...unwrap() panics: the guards are
                         \* dropped by the unwinding, the blocking task fails to join
                         /\ SetHandle(req[t].path, GuardDropped(h2))
                         /\ readers' = readers \ {t}
                         /\ Finish(t, EntrypointFailed("TokioJoinError"))
                         /\ UNCHANGED <<procs, call_resp>>
                    [] OTHER ->
                         /\ SetHandle(req[t].path,
                              [h2 EXCEPT !.hits = IF RecordsStat(answer) THEN @ + 1 ELSE @])
                         /\ call_resp' = [call_resp EXCEPT ![t] = <<Decoded(answer)>>]
                         /\ pc' = [pc EXCEPT ![t] = "set_color"]
                         /\ UNCHANGED <<procs, readers, outcome>>
          ELSE /\ \E kind \in ReadErrors(procs, ph) : QueryFailed(t, kind)
               /\ UNCHANGED <<readers, outcome>>
    /\ UNCHANGED <<now, budget, writer, req, todo, collected, write_idx, hb_pc, hb_todo>>
    /\ UNCHANGED lib_vars

\* HttpRequestHandler::handle: the colour is stored, the handle guard and the
\* read guard are dropped, the call's result is the request's.
SetColor(t) ==
    /\ pc[t] = "set_color"
    /\ SetHandle(req[t].path,
         GuardDropped([HandleOf(t) EXCEPT !.color = ColorOf(call_resp[t][1])]))
    /\ readers' = readers \ {t}
    /\ Finish(t, HandlerReturned(call_resp[t][1]))
    /\ call_resp' = [call_resp EXCEPT ![t] = <<>>]
    /\ UNCHANGED <<now, budget, writer, procs, req, todo, collected, write_idx, hb_pc, hb_todo>>
    /\ UNCHANGED lib_vars

(* ------------------------- the component subprocess -------------------- *)

\* Position of the first newline in a FIFO's content, 0 if there is none.
FirstNewline(s) ==
    IF \E i \in 1..Len(s) : s[i][1] = "newline"
    THEN CHOOSE i \in 1..Len(s) :
           /\ s[i][1] = "newline"
           /\ \A j \in 1..(i - 1) : s[j][1] # "newline"
    ELSE 0

\* The writers of the payload bytes of a line.
WritersOf(line) == [i \in 1..(Len(line) - 1) |-> line[i][2]]

\* A running component reads one request line from IN and writes one answer
\* line to OUT.
ComponentServe(p, answers) ==
    /\ p \in DOMAIN active_components
    /\ active_components[p].process_handle # <<>>
    /\ LET h == active_components[p]
           ph == h.process_handle[1]
           k == FirstNewline(ph.fin)
       IN /\ procs[ph.pid] = "running"
          /\ k > 0
          /\ \E a \in answers :
               SetHandle(p, [h EXCEPT !.process_handle =
                 <<[ph EXCEPT !.fin = SubSeq(@, k + 1, Len(@)),
                              !.fout = Append(@, [answer |-> a,
                                                  for |-> WritersOf(SubSeq(ph.fin, 1, k))])]>>])
    /\ UNCHANGED <<now, budget, readers, writer, procs, pc, req, todo, collected, write_idx,
                   call_resp, outcome, hb_pc, hb_todo>>
    /\ UNCHANGED lib_vars

\* The subprocess of a booted component exits on its own.
ComponentExit(p) ==
    /\ p \in DOMAIN active_components
    /\ active_components[p].process_handle # <<>>
    /\ LET pid == active_components[p].process_handle[1].pid IN
         /\ procs[pid] = "running"
         /\ procs' = [procs EXCEPT ![pid] = "exited"]
    /\ UNCHANGED <<now, budget, active_components, readers, writer, pc, req,
                   todo, collected, write_idx, call_resp, outcome, hb_pc, hb_todo>>
    /\ UNCHANGED lib_vars

\* Time passes.
Tick ==
    /\ now + ClockStep <= MaxTime
    /\ now' = now + ClockStep
    /\ UNCHANGED <<budget, active_components, readers, writer, procs, pc, req,
                   todo, collected, write_idx, call_resp, outcome, hb_pc, hb_todo>>
    /\ UNCHANGED lib_vars

(* --------------------- main.rs: the heartbeat thread ------------------- *)

\* component_manager().read() returns in the heartbeat thread.
HeartbeatStart ==
    /\ hb_pc = "sleep"
    /\ ReadLockFree
    /\ readers' = readers \cup {HeartbeatThread}
    /\ hb_pc' = "sweep"
    /\ hb_todo' \in IterationOrders(active_components)
    /\ UNCHANGED <<now, budget, active_components, writer, procs, pc, req, todo, collected,
                   write_idx, call_resp, outcome>>
    /\ UNCHANGED lib_vars

\* ComponentManager::heartbeat, one handle of the sweep: try_lock, and on
\* success ComponentHandle::heartbeat -> IsolatedProcessWrapper::heartbeat.
HeartbeatVisit ==
    /\ hb_pc = "sweep"
    /\ hb_todo # <<>>
    /\ hb_todo' = Tail(hb_todo)
    /\ LET p == Head(hb_todo)
           h == active_components[p] IN
       IF HandleLockFree(h)
       THEN LET locked == Locked(h, HeartbeatThread) IN
            IF Expired(locked, now)
            THEN /\ SetHandle(p, GuardDropped([locked EXCEPT !.process_handle = <<>>]))
                 /\ procs' = DropProcessHandle(procs, h.process_handle)
            ELSE /\ SetHandle(p, GuardDropped(locked))
                 /\ UNCHANGED procs
       ELSE UNCHANGED <<active_components, procs>>
    /\ UNCHANGED <<now, budget, readers, writer, pc, req, todo, collected, write_idx,
                   call_resp, outcome, hb_pc>>
    /\ UNCHANGED lib_vars

\* The sweep is over: the read guard is dropped, the thread sleeps.
HeartbeatEnd ==
    /\ hb_pc = "sweep"
    /\ hb_todo = <<>>
    /\ readers' = readers \ {HeartbeatThread}
    /\ hb_pc' = "sleep"
    /\ UNCHANGED <<now, budget, active_components, writer, procs, pc, req, todo, collected,
                   write_idx, call_resp, outcome, hb_todo>>
    /\ UNCHANGED lib_vars

(* ---------------------------- specification ---------------------------- *)

\* What a request thread does once a request is accepted.
Serve(t) ==
    \/ AcquireWrite(t)
    \/ MetaActivate(t)
    \/ MetaDeactivate(t)
    \/ LogsVisit(t)
    \/ LogsDone(t)
    \/ StatusStart(t)
    \/ StatusVisit(t)
    \/ StatusDone(t)
    \/ InvokeLookup(t)
    \/ InvokeLock(t)
    \/ QueryBoot(t)
    \/ HandlePoll(t)
    \/ PipeWrite(t)
    \/ PipeRead(t)
    \/ SetColor(t)
    \/ Return(t)

HeartbeatStep ==
    \/ HeartbeatStart
    \/ HeartbeatVisit
    \/ HeartbeatEnd

\* The sequential specification: one client sends its requests one after the
\* other, all about one component; the heartbeat thread, the component
\* subprocess and the clock run beside it.
SequentialThread == "t1"
SequentialMenu == {r \in Requests : r.path = "p1"}

Next ==
    \/ StartRequest(SequentialThread, SequentialMenu, BodyOutcomes)
    \/ Serve(SequentialThread)
    \/ HeartbeatStep
    \/ \E p \in Paths : ComponentServe(p, ComponentAnswers)
    \/ \E p \in Paths : ComponentExit(p)
    \/ Tick

Spec == Init /\ [][Next]_vars

\* The concurrent specification: two request threads and the heartbeat thread,
\* two components, well-behaved component subprocesses, no clock.
ConcurrentMenu ==
    {r \in Requests :
       /\ r.kind \in {"activate", "deactivate", "invoke", "status", "logs"}
       /\ r.path = "p1" \/ (r.hash = "h1" /\ r.method = "PythonUnsafe")}

NextConcurrent ==
    \/ \E t \in Workers : StartRequest(t, ConcurrentMenu, {"ok"})
    \/ \E t \in Workers : Serve(t)
    \/ HeartbeatStep
    \/ \E p \in Paths : ComponentServe(p, {"ok200"})

InitConcurrent == InitCommon /\ budget = MaxConcurrentRequests

SpecConcurrent == InitConcurrent /\ [][NextConcurrent]_vars

\* The fair specification: the threads of the concurrent specification, each
\* scheduled again and again (a thread that can take a step eventually takes
\* one), on requests that all carry one hash and one execution method.
FairMenu ==
    {r \in ConcurrentMenu : r.hash = "h1" /\ r.method = "PythonUnsafe"}

NextFair ==
    \/ \E t \in Workers : StartRequest(t, FairMenu, {"ok"})
    \/ \E t \in Workers : Serve(t)
    \/ HeartbeatStep
    \/ \E p \in Paths : ComponentServe(p, {"ok200"})

InitFair == InitCommon /\ budget = MaxFairRequests

FairSpec ==
    /\ InitFair
    /\ [][NextFair]_vars
    /\ \A t \in Workers : WF_vars(Serve(t))
    /\ WF_vars(HeartbeatStep)


\* The ownership specification: one request thread and the heartbeat over two
\* components that answer or exit, with boots that may fail, and the clock.
OwnershipMenu ==
    {r \in Requests :
       /\ r.kind \in {"activate", "deactivate", "invoke", "status", "logs"}
       /\ r.hash = "h1" /\ r.method = "PythonUnsafe"}

NextOwnership ==
    \/ StartRequest(SequentialThread, OwnershipMenu, {"ok"})
    \/ Serve(SequentialThread)
    \/ HeartbeatStep
    \/ \E p \in Paths : ComponentServe(p, {"ok200"})
    \/ \E p \in Paths : ComponentExit(p)
    \/ Tick

InitOwnership == InitCommon /\ budget = MaxOwnedRequests

SpecOwnership == InitOwnership /\ [][NextOwnership]_vars

\* The specification of unordered calls: three request threads, one for the
\* requests on each of the two components and one that deactivates; the
\* components answer.
UnorderedMenu(t) ==
    {r \in Requests :
       /\ r.hash = "h1" /\ r.method = "PythonUnsafe"
       /\ CASE t = "t1" -> r.kind \in {"activate", "invoke"} /\ r.path = "p1"
            [] t = "t2" -> r.kind \in {"activate", "invoke"} /\ r.path = "p2"
            [] OTHER -> r.kind = "deactivate"}

NextUnordered ==
    \/ \E t \in Threads : StartRequest(t, UnorderedMenu(t), {"ok"})
    \/ \E t \in Threads : AcquireWrite(t)
    \/ \E t \in Threads : MetaActivate(t)
    \/ \E t \in Threads : MetaDeactivate(t)
    \/ \E t \in Threads : InvokeLookup(t)
    \/ \E t \in Threads : InvokeLock(t)
    \/ \E t \in Threads : QueryBoot(t)
    \/ \E t \in Threads : HandlePoll(t)
    \/ \E t \in Threads : PipeWrite(t)
    \/ \E t \in Threads : PipeRead(t)
    \/ \E t \in Threads : SetColor(t)
    \/ \E t \in Threads : Return(t)
    \/ \E p \in Paths : ComponentServe(p, {"ok200"})

InitUnordered == InitCommon /\ budget = MaxUnorderedRequests

SpecUnordered == InitUnordered /\ [][NextUnordered]_vars

\* The routing specification: one client sends requests of every verb and
\* URI shape, one after the other; the heartbeat and a well-behaved component
\* run beside it.
RoutedMenu ==
    {Routed(v, s, b) : v \in Verbs, s \in UriSegments, b \in ParsedBodies}

NextRouting ==
    \/ StartRequest(SequentialThread, RoutedMenu, BodyOutcomes)
    \/ Serve(SequentialThread)
    \/ HeartbeatStep
    \/ \E p \in Paths : ComponentServe(p, {"ok200"})

InitRouting == InitCommon /\ budget = MaxRoutedRequests

SpecRouting == InitRouting /\ [][NextRouting]_vars

\* The StatTracker specification: events are added and snapshots taken
\* while the clock runs.
NextStats ==
    \/ add_stat_event({1, 2}, {3}, MaxEvents)
    \/ get_component_stats
    \/ StatsTick

InitStatsOnly == InitCommon /\ budget = 0

SpecStats == InitStatsOnly /\ [][NextStats]_vars

\* The percentile specification: latencies of every order are added to an
\* empty tracker or to one that holds 1..100 or 100..1, and snapshots are taken.
OneToHundred == [i \in 1..100 |-> StatEvent(0, i, 3)]
HundredToOne == [i \in 1..100 |-> StatEvent(0, 101 - i, 3)]

NextPercentiles ==
    \/ add_stat_event({1, 7}, {3}, MaxSamples)
    \/ get_component_stats

InitPercentiles ==
    /\ InitCore /\ budget = 0
    /\ InitLogs /\ InitPool /\ InitPipe
    /\ inserted \in {<<>>, OneToHundred, HundredToOne}
    /\ event_deque = inserted
    /\ stats_result = <<>>

SpecPercentiles == InitPercentiles /\ [][NextPercentiles]_vars

\* The LogTracker specification: trackers are made, get new policies and are
\* read, in any order.
NextLogs ==
    \/ LogTrackerNew
    \/ \E k \in 1..MaxTrackers : create_associated_policy(k)
    \/ \E k \in 1..MaxTrackers : get_contents(k)

InitLogsOnly == InitCommon /\ budget = 0

SpecLogs == InitLogsOnly /\ [][NextLogs]_vars

\* The pool specification: the populator threads and two callers of
\* get_idle_container, in any interleaving.
NextPool ==
    \/ \E i \in Populators : PopulatorCreate(i)
    \/ \E i \in Populators : PopulatorSleep(i)
    \/ \E i \in Populators : PopulatorSend(i)
    \/ \E a \in Acquirers : AcquireTryLock(a)
    \/ \E a \in Acquirers : AcquireTryRecv(a)
    \/ \E a \in Acquirers : AcquireCreate(a)
    \/ \E a \in Acquirers : AcquireReturn(a)

InitPoolOnly == InitCommon /\ budget = 0

SpecPool == InitPoolOnly /\ [][NextPool]_vars

\* The fair pool specification: the populator threads are scheduled again and
\* again and docker run, tried again and again, succeeds in the end; the
\* callers of get_idle_container come when they like, and ask for no more
\* containers than one run creates.
Acquiring ==
    Cardinality(UNION {acquirers[a].owned : a \in Acquirers})
      + Cardinality({a \in Acquirers : acquirers[a].pc # "idle"})

NextPoolFair ==
    \/ \E i \in Populators : PopulatorCreate(i)
    \/ \E i \in Populators : PopulatorSleep(i)
    \/ \E i \in Populators : PopulatorSend(i)
    \/ \E a \in Acquirers : Acquiring < MaxAcquired /\ AcquireTryLock(a)
    \/ \E a \in Acquirers : AcquireTryRecv(a)
    \/ \E a \in Acquirers : AcquireCreate(a)
    \/ \E a \in Acquirers : AcquireReturn(a)

SpecPoolFair ==
    /\ InitPoolOnly
    /\ [][NextPoolFair]_vars
    /\ \A i \in Populators :
         /\ SF_vars(PopulatorCreate(i) /\ populators'[i].pc = "send")
         /\ WF_vars(PopulatorSleep(i))
         /\ WF_vars(PopulatorSend(i))

\* The pipe specification: NamedPipe::write is called with every payload.
NextPipe ==
    \/ \E v \in Payloads(MaxPayload) : WriteEnter(v)
    \/ WriteGetFds
    \/ DeadlinePasses
    \/ WritePoll
    \/ WriteSome
    \/ WriteReturn
    \/ ReadEnter
    \/ ReadSome
    \/ PeerRead
    \/ PeerWrite

InitPipeOnly ==
    /\ InitCore /\ budget = 0
    /\ InitStats /\ InitLogs /\ InitPool
    /\ pipe = NamedPipe(FALSE, FALSE, <<>>)
    /\ write_call = WriteCall(0, "returned", <<>>, <<>>, pipe, <<"none">>)
    /\ read_call = ReadCall("idle", <<>>, <<"none">>, TRUE)
    /\ \E mode \in PeerModes : peer = Peer(mode, 0, <<>>, <<>>, <<>>)

SpecPipe == InitPipeOnly /\ [][NextPipe]_vars

(* ------------------------------ properties ----------------------------- *)

Agents == Workers \cup {HeartbeatThread}

\* The agents whose locks agent a is blocked on.
Blockers(a) ==
    LET holder == IF writer = <<>> THEN {} ELSE {writer[1]}
        owner(p) == {active_components[p].lock} \ {"free"}
    IN IF a = HeartbeatThread
       THEN IF hb_pc = "sleep" THEN holder \cup WritersWaiting ELSE {}
       ELSE CASE pc[a] = "wait_write" -> holder \cup readers
              [] pc[a] = "wait_read" -> holder \cup WritersWaiting
              [] pc[a] = "lock_handle" -> owner(req[a].path)
              [] pc[a] \in {"status_walk", "logs_walk"} /\ todo[a] # <<>>
                   -> owner(Head(todo[a]))
              [] OTHER -> {}

\* No set of agents in which each is blocked on another of the set.
NoWaitCycle ==
    \A S \in (SUBSET Agents) \ {{}} : \E a \in S : Blockers(a) \cap S = {}

\* C4: the registry lock and the handle locks never form a wait-for cycle, and
\* (component calls returning within their timeouts) every request a thread
\* has taken, waiting for a lock or not, comes to its end.
C4_DeadlockFreedom ==
    /\ []NoWaitCycle
    /\ \A t \in Workers : (pc[t] # "idle") ~> (pc[t] = "done")

\* C4 witness: one thread waits for the write lock, the other holds the read
\* lock and a handle lock, and the heartbeat sweep is inside its read lock.
C4_Witness ==
    /\ pc["t1"] = "wait_write"
    /\ pc["t2"] = "pipe_read"
    /\ readers = {"t2", HeartbeatThread}

\* The step in which thread t's activate / deactivate request is carried out.
ActivateStep(t) ==
    pc[t] = "write_op" /\ req[t].kind = "activate" /\ pc'[t] = "done"
DeactivateStep(t) ==
    pc[t] = "write_op" /\ req[t].kind = "deactivate" /\ pc'[t] = "done"

\* The step in which thread t's invoke looks its component up.
LookupStep(t) ==
    pc[t] = "wait_read" /\ req[t].kind = "invoke" /\ pc'[t] # "wait_read"

\* A path enters the registry only through an activate that returns
\* ActivationSuccessful, and leaves it only through a deactivate that returns
\* DeactivationSuccessful: "registered" is "activated and not deactivated since".
RegisteredMeansActivated ==
    \A p \in Paths :
      /\ (p \notin DOMAIN active_components /\ p \in DOMAIN active_components')
           => \E t \in Threads :
                /\ ActivateStep(t) /\ req[t].path = p
                /\ outcome'[t].result = "activation-successful"
      /\ (p \in DOMAIN active_components /\ p \notin DOMAIN active_components')
           => \E t \in Threads :
                /\ DeactivateStep(t) /\ req[t].path = p
                /\ outcome'[t].result = "deactivation-successful"

\* C1: registry uniqueness.  While a path is registered (activated with
\* success and not deactivated with success since), every activate for it,
\* whatever its hash and execution method, returns AlreadyRunning and leaves
\* the whole registry, the registered handle included, as it was.
C1_RegistryUniqueness ==
    [][/\ RegisteredMeansActivated
       /\ \A t \in Threads :
            (ActivateStep(t) /\ req[t].path \in DOMAIN active_components)
              => /\ outcome'[t].result = "already-running"
                 /\ active_components' = active_components]_vars

\* C1 witness: an activate has just returned AlreadyRunning for a component
\* that is booted and has served a call.
C1_Witness ==
    \E t \in Threads :
      /\ pc[t] = "done" /\ req[t].kind = "activate"
      /\ outcome[t].result = "already-running"
      /\ req[t].path \in DOMAIN active_components
      /\ active_components[req[t].path].hits > 0
      /\ active_components[req[t].path].process_handle # <<>>

\* C2: deactivate idempotence.  A deactivate of a registered path returns
\* DeactivationSuccessful and removes that path and no other; a deactivate of
\* an absent path returns ComponentNotFound and leaves the registry unchanged;
\* a removed path stays absent until an activate succeeds, so the second of
\* two deactivates in a row returns ComponentNotFound.
C2_DeactivateIdempotence ==
    [][/\ \A p \in Paths :
            (p \notin DOMAIN active_components /\ p \in DOMAIN active_components')
              => \E t \in Threads : ActivateStep(t) /\ req[t].path = p
       /\ \A t \in Threads :
            DeactivateStep(t) =>
              IF req[t].path \in DOMAIN active_components
              THEN /\ outcome'[t].result = "deactivation-successful"
                   /\ DOMAIN active_components' =
                        DOMAIN active_components \ {req[t].path}
                   /\ \A q \in DOMAIN active_components' :
                        active_components'[q] = active_components[q]
              ELSE /\ outcome'[t].result = "component-not-found"
                   /\ active_components' = active_components]_vars

\* C2 witness: one deactivate of a path has returned DeactivationSuccessful
\* and another deactivate of the same path ComponentNotFound.
C2_Witness ==
    \E t, u \in Threads :
      /\ pc[t] = "done" /\ req[t].kind = "deactivate"
      /\ outcome[t].result = "deactivation-successful"
      /\ pc[u] = "done" /\ req[u].kind = "deactivate"
      /\ outcome[u].result = "component-not-found"
      /\ req[u].path = req[t].path
      /\ req[t].path \notin DOMAIN active_components

\* Thread t is inside the critical section of its component's handle.
InCall(t) == pc[t] \in {"query", "poll", "pipe_write", "pipe_read", "set_color"}

\* The IN FIFO holds whole request lines and at most one unfinished line at
\* its end, each written by one thread.
LinesWhole(fin) ==
    \A i \in 1..Len(fin) :
      /\ fin[i][1] = "newline" => (i > 1 /\ fin[i - 1] = <<"payload", fin[i][2]>>)
      /\ fin[i][1] = "payload" => (i = 1 \/ fin[i - 1][1] = "newline")

\* C3: per-path serialisation.  Two invocations are never inside the critical
\* section of one handle together, the thread inside holds the handle's lock,
\* and the bytes of two requests never interleave on the pipe: every line the
\* component reads, and every answer it gives, belongs to one invocation.
C3_PerPathSerialisation ==
    /\ \A t, u \in Threads :
         (t # u /\ InCall(t) /\ InCall(u)) => req[t].path # req[u].path
    /\ \A t \in Threads :
         InCall(t) => /\ req[t].path \in DOMAIN active_components
                      /\ active_components[req[t].path].lock = t
    /\ \A p \in DOMAIN active_components :
         active_components[p].process_handle # <<>> =>
           LET ph == active_components[p].process_handle[1] IN
             /\ LinesWhole(ph.fin)
             /\ \A i \in 1..Len(ph.fout) : Len(ph.fout[i].for) = 1
             /\ ph.fin # <<>> \/ ph.fout # <<>> =>
                  \E t \in Threads : InCall(t) /\ req[t].path = p

\* C3 witness: a thread has written part of its request line and the other
\* thread waits for the same handle.
C3_Witness ==
    /\ pc["t1"] = "pipe_write" /\ write_idx["t1"] = 1
    /\ pc["t2"] = "lock_handle"
    /\ req["t1"].path = req["t2"].path

\* C9: the registry is keyed on the path only.  An activate whose hash is not
\* the registered one returns AlreadyRunning and changes nothing; a deactivate
\* whose hash is not the registered one removes the handle; an invoke finds the
\* handle exactly when its path is registered; a handle's hash is the one of
\* the activate that registered it, never changes, and is what status reports.
C9_KeyedOnPathOnly ==
    [][/\ \A t \in Threads :
            LET p == req[t].path
                other == /\ p \in DOMAIN active_components
                         /\ active_components[p].hash # req[t].hash
            IN /\ (ActivateStep(t) /\ other)
                    => /\ outcome'[t].result = "already-running"
                       /\ active_components' = active_components
               /\ (DeactivateStep(t) /\ other)
                    => /\ outcome'[t].result = "deactivation-successful"
                       /\ p \notin DOMAIN active_components'
               /\ (ActivateStep(t) /\ outcome'[t].result = "activation-successful")
                    => active_components'[p].hash = req[t].hash
               /\ LookupStep(t)
                    => (pc'[t] = "lock_handle" <=> p \in DOMAIN active_components)
               /\ \A e \in collected'[t] \ collected[t] :
                    /\ e.path \in DOMAIN active_components
                    /\ e.hash = active_components[e.path].hash
       /\ \A p \in DOMAIN active_components \cap DOMAIN active_components' :
            active_components'[p].hash = active_components[p].hash]_vars

\* C9 witness: status has reported a component with the hash of its
\* activation after an activate with another hash returned AlreadyRunning.
C9_Witness ==
    \E t, u \in Threads :
      /\ pc[t] = "done" /\ req[t].kind = "status"
      /\ pc[u] = "done" /\ req[u].kind = "activate"
      /\ outcome[u].result = "already-running"
      /\ \E e \in collected[t] : e.path = req[u].path /\ e.hash # req[u].hash

\* Component p is registered in registry ac and its wrapper holds a process
\* handle.
Booted(ac, p) == p \in DOMAIN ac /\ ac[p].process_handle # <<>>

\* The subprocess a booted component's wrapper holds.
PidOf(ac, p) == ac[p].process_handle[1].pid

\* The step of thread t's invoke that is IsolatedProcessWrapper::query_process
\* up to the boot.
QueryStep(t) == pc[t] = "query" /\ pc'[t] # "query"

\* The step of thread t's invoke that polls the subprocess.
PollStep(t) == pc[t] = "poll" /\ pc'[t] # "poll"

\* The step in which the pipe exchange of thread t's invoke ends with a
\* response of the component.
ExchangeSucceeds(t) ==
    /\ pc[t] = "pipe_read" /\ pc'[t] = "set_color"
    /\ call_resp'[t][1].err = "none"

\* The step in which a query of thread t fails inside query_process.
QueryFails(t) ==
    /\ pc[t] \in {"query", "poll", "pipe_write", "pipe_read"}
    /\ pc'[t] = "set_color"
    /\ call_resp'[t][1].err # "none"

\* The heartbeat visits the handle at the head of its sweep.
HeartbeatVisitStep == hb_pc = "sweep" /\ hb_todo # <<>> /\ hb_todo' = Tail(hb_todo)

\* A boot adds exactly one running subprocess, which the wrapper then holds.
BootsOneFresh(p) ==
    /\ Len(procs') = Len(procs) + 1
    /\ \A i \in 1..Len(procs) : procs'[i] = procs[i]
    /\ procs'[Len(procs')] = "running"
    /\ Booted(active_components', p)
    /\ PidOf(active_components', p) = Len(procs')

\* C5: cold start then warm reuse.  A query on an unbooted wrapper boots at
\* most one process (exactly one, fresh, when the boot succeeds); a query on
\* a booted wrapper boots nothing and keeps the process handle; a pipe
\* exchange that succeeds leaves the wrapper booted on the same process; and
\* a booted wrapper loses or changes its process only by a failed query, a
\* heartbeat eviction or a deactivation.  Nothing else spawns a process.
C5_ColdStartWarmReuse ==
    [][/\ \A t \in Threads :
            LET p == req[t].path IN
            /\ QueryStep(t) =>
                 IF Booted(active_components, p)
                 THEN /\ procs' = procs
                      /\ Booted(active_components', p)
                      /\ PidOf(active_components', p) = PidOf(active_components, p)
                 ELSE /\ Len(procs') <= Len(procs) + 1
                      /\ pc'[t] = "poll" => BootsOneFresh(p)
                      /\ pc'[t] # "poll" => procs' = procs
            /\ ExchangeSucceeds(t) =>
                 /\ Booted(active_components, p) /\ Booted(active_components', p)
                 /\ PidOf(active_components', p) = PidOf(active_components, p)
                 /\ procs'[PidOf(active_components', p)] = procs[PidOf(active_components, p)]
       /\ Len(procs') # Len(procs) =>
            \E t \in Threads : QueryStep(t) /\ ~Booted(active_components, req[t].path)
       /\ \A p \in Paths :
            (/\ Booted(active_components, p)
             /\ \/ ~Booted(active_components', p)
                \/ PidOf(active_components', p) # PidOf(active_components, p))
              => \/ \E t \in Threads : QueryFails(t) /\ req[t].path = p
                 \/ \E t \in Threads : DeactivateStep(t) /\ req[t].path = p
                 \/ HeartbeatVisitStep /\ Head(hb_todo) = p]_vars

\* C5 witness: the second invoke of a component is past query_process's boot
\* test on the process its first invoke booted, and no other exists.
C5_Witness ==
    \E t \in Threads :
      /\ pc[t] = "poll"
      /\ active_components[req[t].path].hits = 1
      /\ PidOf(active_components, req[t].path) = 1
      /\ procs = <<"running">>

\* C6: crash recovery.  An invoke that finds its booted wrapper's subprocess
\* exited fails with SubprocessTerminated (answered 543) at the poll, before
\* any byte is written to the pipe, and leaves the wrapper unbooted; the
\* query of the invoke after it, finding the wrapper unbooted, boots a fresh
\* subprocess, and an exchange the component answers with 200 succeeds.
C6_CrashRecovery ==
    [][\A t \in Threads :
         LET p == req[t].path IN
         /\ (PollStep(t) /\ procs[PidOf(active_components, p)] = "exited")
              => /\ pc'[t] = "set_color"
                 /\ call_resp'[t][1].err = "SubprocessTerminated"
                 /\ ~Booted(active_components', p)
                 /\ p \in DOMAIN active_components'
                 /\ procs' = procs
         /\ (pc[t] = "set_color" /\ pc'[t] = "done"
               /\ call_resp[t][1].err = "SubprocessTerminated")
              => /\ outcome'[t].err = "SubprocessTerminated"
                 /\ outcome'[t].resp # <<>>
                 /\ outcome'[t].resp[1].status = 543
         /\ (QueryStep(t) /\ ~Booted(active_components, p) /\ pc'[t] = "poll")
              => BootsOneFresh(p)
         /\ (pc[t] = "pipe_read" /\ pc'[t] # "pipe_read"
               /\ active_components[p].process_handle[1].fout # <<>>
               /\ Head(active_components[p].process_handle[1].fout).answer = "ok200")
              => /\ call_resp'[t][1].err = "none"
                 /\ call_resp'[t][1].resp.status = 200
                 /\ Booted(active_components', p)]_vars

\* C6 witness: a component that had served a call lost its subprocess, and
\* the invoke after that has ended in SubprocessTerminated with the wrapper
\* unbooted.
C6_Witness ==
    \E t \in Threads :
      /\ pc[t] = "done" /\ req[t].kind = "invoke"
      /\ outcome[t].err = "SubprocessTerminated"
      /\ procs = <<"exited">>
      /\ active_components[req[t].path].hits = 1
      /\ ~Booted(active_components, req[t].path)

\* The query of an unbooted wrapper cold-starts: it boots a fresh process or
\* fails in the boot.
ColdStarts ==
    \A t \in Threads :
      (QueryStep(t) /\ ~Booted(active_components, req[t].path))
        => IF pc'[t] = "poll" THEN BootsOneFresh(req[t].path)
           ELSE pc'[t] = "set_color" /\ call_resp'[t][1].err # "none"

\* C7 as stated: a heartbeat that visits a booted wrapper whose handle lock is
\* free and whose last query is at least EXPIRY old leaves it unbooted.
C7_AsStated ==
    [][HeartbeatVisitStep =>
         LET p == Head(hb_todo)
             h == active_components[p]
         IN (/\ h.process_handle # <<>>
             /\ h.lock = "free"
             /\ now - h.last_accessed >= EXPIRY_DURATION)
              => ~Booted(active_components', p)]_vars

\* C7: idle eviction.  A heartbeat that visits a booted wrapper whose handle
\* lock is free unboots it exactly when its last query is more than EXPIRY
\* old; the process handle is dropped, so the subprocess no longer runs; the
\* next invoke cold-starts.
C7_IdleEviction ==
    [][/\ HeartbeatVisitStep =>
            LET p == Head(hb_todo)
                h == active_components[p]
            IN (h.process_handle # <<>> /\ h.lock = "free")
                 => /\ (now - h.last_accessed > EXPIRY_DURATION)
                         <=> ~Booted(active_components', p)
                    /\ ~Booted(active_components', p)
                         => procs'[h.process_handle[1].pid] # "running"
       /\ ColdStarts]_vars

\* C7 witness: a component served two calls, each on a process of its own,
\* and the first process was terminated: it was evicted between the calls.
C7_Witness ==
    /\ budget = MaxRequests - 3
    /\ procs = <<"terminated", "running">>
    /\ Booted(active_components, "p1")
    /\ active_components["p1"].hits = 2
    /\ now - active_components["p1"].last_accessed = 0
    /\ now > EXPIRY_DURATION

\* C8: a deactivate that returns DeactivationSuccessful leaves its path
\* absent and the subprocess of the dropped process handle not running
\* (terminated, if it ran); an invoke of an absent path yields PathNotFound,
\* answered 404 'v9: worker 404'; an absent path becomes registered only by an
\* activate that succeeds.
C8_AfterDeactivate ==
    [][/\ \A t \in Threads :
            LET p == req[t].path IN
            /\ (DeactivateStep(t) /\ outcome'[t].result = "deactivation-successful")
                 => /\ p \notin DOMAIN active_components'
                    /\ Booted(active_components, p) =>
                         /\ procs'[PidOf(active_components, p)] # "running"
                         /\ procs[PidOf(active_components, p)] = "running"
                              => procs'[PidOf(active_components, p)] = "terminated"
            /\ (LookupStep(t) /\ p \notin DOMAIN active_components)
                 => /\ pc'[t] = "done"
                    /\ outcome'[t].err = "PathNotFound"
                    /\ outcome'[t].resp = <<[status |-> 404, body |-> "v9: worker 404"]>>
       /\ \A p \in Paths :
            (p \notin DOMAIN active_components /\ p \in DOMAIN active_components')
              => \E t \in Threads :
                   /\ ActivateStep(t) /\ req[t].path = p
                   /\ outcome'[t].result = "activation-successful"]_vars

\* C8 witness: after activate, invoke and deactivate, in no time, the
\* subprocess is terminated, the registry is empty and a further invoke has
\* been answered 404.
C8_Witness ==
    \E t \in Threads :
      /\ pc[t] = "done" /\ req[t].kind = "invoke"
      /\ outcome[t].err = "PathNotFound"
      /\ budget = MaxRequests - 4
      /\ procs = <<"terminated">>
      /\ DOMAIN active_components = {}
      /\ now = 0

\* C10 as stated: every request that failed has been answered, with 404 and
\* 'v9: worker 404' for PathNotFound, 405 and an empty body for WrongMethod,
\* 543 and the error's description for every other kind.
C10_AsStated ==
    \A t \in Threads :
      (pc[t] = "done" /\ outcome[t].err # "none")
        => outcome[t].resp =
             << CASE outcome[t].err = "PathNotFound"
                       -> [status |-> 404, body |-> "v9: worker 404"]
                  [] outcome[t].err = "WrongMethod"
                       -> [status |-> 405, body |-> ""]
                  [] OTHER
                       -> [status |-> 543, body |-> to_string(outcome[t].err)] >>

\* The step in which global_request_entrypoint takes thread t's request, and
\* whether it got as far as calling HttpRequestHandler::handle.
StartStep(t) == pc[t] = "idle" /\ pc'[t] # "idle"
HandleCalled(t) == outcome'[t].err \notin {"Hyper", "InvalidUtf8"}

IsMetaPath(s) == Len(s) = 2 /\ s[1] = "meta"
IsSlPath(s) == Len(s) >= 4 /\ s[1] = "sl"

\* The request ends with PathNotFound, answered 404 'v9: worker 404'.
Ends404(t) ==
    /\ pc'[t] = "done"
    /\ outcome'[t].err = "PathNotFound"
    /\ outcome'[t].resp = <<[status |-> 404, body |-> "v9: worker 404"]>>

\* The step changes no registry, wrapper, stats or colour state.
ComponentsUntouched == active_components' = active_components /\ procs' = procs

\* C11: route classification is total.  Of the requests handle is called
\* with, one is handled as a meta request only if its path is exactly
\* meta/<action>, and as a component call only if its path has at least four
\* segments, starts with sl and names a registered (user, repo); every other
\* request ends with PathNotFound (404) and changes no component state.
C11_RouteClassification ==
    [][\A t \in Threads :
         /\ (StartStep(t) /\ HandleCalled(t)) =>
              LET s == req'[t].segments IN
              /\ req'[t].kind \in {"activate", "deactivate", "bad_activate",
                                   "bad_deactivate", "status", "logs", "wrong_verb"}
                   => IsMetaPath(s)
              /\ req'[t].kind = "invoke"
                   => IsSlPath(s) /\ req'[t].path = ComponentPathOf(s[2], s[3])
              /\ IsSlPath(s) => req'[t].kind = "invoke" /\ pc'[t] = "wait_read"
              /\ (~IsMetaPath(s) /\ ~IsSlPath(s)) => Ends404(t)
              /\ ComponentsUntouched
         /\ LookupStep(t) =>
              IF req[t].path \in DOMAIN active_components
              THEN pc'[t] = "lock_handle"
              ELSE Ends404(t) /\ ComponentsUntouched
         /\ pc'[t] \in {"lock_handle", "query", "poll", "pipe_write", "pipe_read",
                        "set_color"}
              => /\ IsSlPath(req'[t].segments)
                 /\ req'[t].path \in DOMAIN active_components']_vars

\* C11 witness: /meta/status/ has been answered 404 while a component is
\* registered.
C11_Witness ==
    \E t \in Threads :
      /\ pc[t] = "done"
      /\ req[t].kind = "no_route"
      /\ req[t].segments = <<"meta", "status", "">>
      /\ outcome[t].resp = <<[status |-> 404, body |-> "v9: worker 404"]>>
      /\ DOMAIN active_components # {}

\* C12: a meta action with another verb than its own (POST for activate and
\* deactivate, GET for status and logs) ends with WrongMethod, answered 405
\* with an empty body, and leaves the registry unchanged; with its own verb it
\* does not; an unknown meta action ends with PathNotFound for every verb.
C12_MetaWrongVerb ==
    [][\A t \in Threads :
         (StartStep(t) /\ HandleCalled(t) /\ IsMetaPath(req'[t].segments)) =>
           LET a == req'[t].segments[2]
               v == req'[t].verb
               own == IF a \in {"activate", "deactivate"} THEN "POST" ELSE "GET"
           IN IF a \in {"activate", "deactivate", "status", "logs"}
              THEN IF v # own
                   THEN /\ pc'[t] = "done"
                        /\ outcome'[t].err = "WrongMethod"
                        /\ outcome'[t].resp = <<[status |-> 405, body |-> ""]>>
                        /\ ComponentsUntouched
                   ELSE /\ pc'[t] \in {"wait_write", "wait_read"}
                        /\ outcome'[t].err = "pending"
              ELSE Ends404(t) /\ ComponentsUntouched]_vars

\* C12 witness: PUT /meta/status has been answered 405 while a component is
\* registered.
C12_Witness ==
    \E t \in Threads :
      /\ pc[t] = "done"
      /\ req[t].verb = "PUT"
      /\ req[t].segments = <<"meta", "status">>
      /\ outcome[t].resp = <<[status |-> 405, body |-> ""]>>
      /\ DOMAIN active_components # {}

\* The colour the classification gives an invocation's outcome.
ClassOf(o) ==
    IF o.err # "none" THEN "Red"
    ELSE LET s == o.resp[1].status IN
         CASE s \in 200..399 -> "Green"
           [] s \in 400..499 -> "Orange"
           [] s \in 500..599 -> "Red"
           [] OTHER -> "Orange"

\* C13 as stated: whenever an invoke on a registered component ends and gives
\* up its handle lock, the handle's stored colour is the classification of the
\* invocation's outcome: Green for 2xx/3xx, Orange for 4xx, Red for 5xx and for
\* a worker-side or transport error.
C13_AsStated ==
    [][\A t \in Threads :
         (InCall(t) /\ pc'[t] = "done") =>
           active_components'[req[t].path].color = ClassOf(outcome'[t])]_vars

\* The line thread t's call is about to read decodes into a ComponentResponse.
ComponentResponded(t) ==
    /\ pc[t] = "pipe_read"
    /\ HandleOf(t).process_handle[1].fout # <<>>
    /\ Head(HandleOf(t).process_handle[1].fout).answer
         \in {"ok200", "ok404", "err500", "badstatus"}

\* C14 as stated: every invocation for which the component returned a
\* response, with or without an error_message, appends exactly one StatEvent
\* to the component's tracker.
C14_AsStated ==
    [][\A t \in Threads :
         (ComponentResponded(t) /\ pc'[t] # "pipe_read") =>
           active_components'[req[t].path].hits = HandleOf(t).hits + 1]_vars

\* The events inserted within the last DEFAULT_STAT_WINDOW before t, in the
\* order of their insertion.
InsertedWithinWindow(t) ==
    SelectSeq(inserted, LAMBDA e : e.at >= t - DEFAULT_STAT_WINDOW)

\* C15: stats pruning.  A snapshot taken at time t, after any sequence of
\* add_stat_event and get_component_stats calls at non-decreasing times,
\* leaves in the tracker exactly the events inserted within the last W, none
\* older than t - W, and its hits is their count.
C15_StatsPruning ==
    stats_result # <<>> =>
      /\ event_deque = InsertedWithinWindow(now)
      /\ \A i \in 1..Len(event_deque) : event_deque[i].at >= now - DEFAULT_STAT_WINDOW
      /\ stats_result[1].hits = Len(InsertedWithinWindow(now))

\* C15 witness: a snapshot taken when two events are older than the window,
\* one of them by one unit of time, and one was inserted exactly W ago.
C15_Witness ==
    /\ stats_result # <<>>
    /\ Len(inserted) = 4
    /\ inserted[1].at < now - DEFAULT_STAT_WINDOW
    /\ inserted[2].at = now - DEFAULT_STAT_WINDOW - 1
    /\ inserted[3].at = now - DEFAULT_STAT_WINDOW
    /\ stats_result[1].hits = 2

\* The latencies in the tracker, in the order of insertion.
Latencies == [i \in 1..Len(event_deque) |-> event_deque[i].duration_ms]

\* The k-th smallest of the latencies.
KthLatency(k) ==
    CHOOSE v \in {Latencies[i] : i \in 1..Len(Latencies)} :
      /\ Cardinality({i \in 1..Len(Latencies) : Latencies[i] < v}) < k
      /\ Cardinality({i \in 1..Len(Latencies) : Latencies[i] <= v}) >= k

\* The size the b-th of the buckets has, and the number of latencies in the
\* buckets before it.
BucketSize(b) ==
    (Len(Latencies) \div PERCENTILE_BUCKETS)
      + (IF b <= Len(Latencies) % PERCENTILE_BUCKETS THEN 1 ELSE 0)

RECURSIVE BucketStart(_)
BucketStart(b) == IF b = 1 THEN 0 ELSE BucketStart(b - 1) + BucketSize(b - 1)

RECURSIVE BucketTotal(_, _)
BucketTotal(b, k) ==
    IF k = 0 THEN 0
    ELSE KthLatency(BucketStart(b) + k) + BucketTotal(b, k - 1)

\* C16: percentile shape.  The percentile vector of a snapshot is the mean of
\* each non-empty bucket, in order, of the retained latencies sorted ascending
\* and cut into 10 contiguous buckets, the first n mod 10 of floor(n/10)+1
\* elements and the rest of floor(n/10); it has min(n, 10) entries and is
\* non-decreasing; for the latencies 1..100 it is 5.5, 15.5, ..., 95.5; with
\* no latencies the means are zero and the list is empty.
C16_PercentileShape ==
    stats_result # <<>> =>
      LET n == Len(Latencies)
          P == stats_result[1].ms_latency_percentiles
      IN /\ Len(P) = Min(n, PERCENTILE_BUCKETS)
         /\ \A b \in 1..Len(P) :
              /\ P[b].count = BucketSize(b)
              /\ P[b].total = BucketTotal(b, BucketSize(b))
         /\ \A b \in 1..(Len(P) - 1) :
              P[b].total * P[b + 1].count <= P[b + 1].total * P[b].count
         /\ inserted \in {OneToHundred, HundredToOne} =>
              /\ Len(P) = 10
              /\ \A b \in 1..Len(P) : 2 * P[b].total = (20 * b - 9) * P[b].count
         /\ n = 0 =>
              /\ P = <<>>
              /\ stats_result[1].avg_ms_latency = Zero
              /\ stats_result[1].avg_response_bytes = Zero

\* C16 witness: a snapshot of twelve latencies that were not inserted in
\* order: ten means, the first two of two latencies each.
C16_Witness ==
    /\ stats_result # <<>>
    /\ Len(event_deque) = 12
    /\ event_deque[1].duration_ms = 7
    /\ event_deque[2].duration_ms = 1
    /\ event_deque[12].duration_ms = 1
    /\ Len(stats_result[1].ms_latency_percentiles) = 10
    /\ stats_result[1].ms_latency_percentiles[2].count = 2
    /\ stats_result[1].ms_latency_percentiles[3].count = 1

\* C17: log generation advances.  Of two generations get_contents reported
\* for one tracker, the one reported after more successful
\* create_associated_policy calls is the greater, so each successful call
\* strictly increases the generation; no two trackers ever hold or report the
\* same generation.
C17_LogGenerationAdvances ==
    /\ \A k \in 1..Len(log_trackers) :
         \A i, j \in 1..Len(log_seen[k]) :
           /\ log_seen[k][i].installed < log_seen[k][j].installed
                => log_seen[k][i].generation < log_seen[k][j].generation
           /\ log_seen[k][i].installed = log_seen[k][j].installed
                => log_seen[k][i].generation = log_seen[k][j].generation
    /\ \A k1, k2 \in 1..Len(log_trackers) :
         k1 # k2 =>
           /\ log_trackers[k1].dedup_number # log_trackers[k2].dedup_number
           /\ \A i \in 1..Len(log_seen[k1]), j \in 1..Len(log_seen[k2]) :
                log_seen[k1][i].generation # log_seen[k2][j].generation

\* C17 witness: a tracker was read before, between and after two successful
\* create_associated_policy calls, while a second tracker got a policy and
\* was read in between.
C17_Witness ==
    /\ Len(log_trackers) = 2
    /\ Len(log_seen[1]) = 3
    /\ log_seen[1][1].installed = 0
    /\ log_seen[1][2].installed = 1
    /\ log_seen[1][3].installed = 2
    /\ Len(log_seen[2]) >= 1
    /\ log_seen[2][1].installed = 1
    /\ log_seen[2][1].generation > log_seen[1][2].generation
    /\ log_seen[2][1].generation < log_seen[1][3].generation

\* Containers in the channel, containers held by populators that have not
\* sent them yet, callers creating a container inline, and the containers
\* such callers have created but not yet been handed.
Buffered == Len(cache_channel)
HeldByPopulators == Cardinality({i \in Populators : populators[i].held # <<>>})
InlineInFlight == Cardinality({a \in Acquirers : acquirers[a].pc \in {"create", "created"}})
InlineLive == Cardinality({a \in Acquirers : acquirers[a].pc = "created"})

\* C18: pool bound.  The containers created by the pool and not yet handed to
\* an acquirer, buffered in the channel or held by a populator, are never
\* more than CONTAINER_CACHE_CHANNEL_SIZE + CACHE_POPULATOR_COUNT = 5; with
\* the containers of inline creations that have not returned yet they are
\* never more than that plus the number of inline acquisitions in flight.
C18_PoolBound ==
    /\ CONTAINER_CACHE_CHANNEL_SIZE + CACHE_POPULATOR_COUNT = 5
    /\ Buffered <= CONTAINER_CACHE_CHANNEL_SIZE
    /\ Buffered + HeldByPopulators <= 5
    /\ Buffered + HeldByPopulators + InlineLive <= 5 + InlineInFlight

\* C18 witness: the channel is full, both populators hold a container they
\* cannot send, and a caller has created one inline.
C18_Witness ==
    /\ Buffered = 3
    /\ HeldByPopulators = 2
    /\ \A i \in Populators : populators[i].pc = "send"
    /\ InlineLive = 1

\* C19 as stated: a call of get_idle_container turns to creating a container
\* inline only when the channel is empty.
C19_AsStated ==
    [][\A a \in Acquirers :
         (acquirers[a].pc \in {"idle", "try_recv"} /\ acquirers'[a].pc = "create")
           => cache_channel = <<>>]_vars

\* No container is in two places: in the channel twice, with two callers, or
\* with a caller and still in the pool.
DeliveredOnce ==
    /\ \A i, j \in 1..Len(cache_channel) : i # j => cache_channel[i] # cache_channel[j]
    /\ \A a, b \in Acquirers : a # b => acquirers[a].owned \cap acquirers[b].owned = {}
    /\ \A a \in Acquirers :
         /\ \A i \in 1..Len(cache_channel) : cache_channel[i] \notin acquirers[a].owned
         /\ \A i \in Populators :
              populators[i].held # <<>> => populators[i].held[1] \notin acquirers[a].owned

\* A call of get_idle_container can always take its next step.
NeverWaits ==
    \A a \in Acquirers :
      /\ acquirers[a].pc = "idle" => ENABLED AcquireTryLock(a)
      /\ acquirers[a].pc = "try_recv" => ENABLED AcquireTryRecv(a)
      /\ acquirers[a].pc = "create" => ENABLED AcquireCreate(a)
      /\ acquirers[a].pc = "created" => ENABLED AcquireReturn(a)

\* C19, amended: get_idle_container never waits, for a populator or for
\* another caller.  A call that finds the receiver's lock free takes it and is
\* handed the first buffered container if the channel is not empty then; it
\* creates a container inline when the channel is empty or when another caller
\* holds the lock at that moment, whatever the channel holds.  Each buffered
\* container is handed to exactly one caller.
C19_AcquireNeverWaits ==
    /\ []NeverWaits
    /\ [][/\ DeliveredOnce'
          /\ \A a \in Acquirers :
               /\ (acquirers[a].pc = "idle" /\ acquirers'[a].pc = "create")
                    => receiver_lock # <<>> /\ receiver_lock # <<a>>
               /\ (acquirers[a].pc = "idle" /\ acquirers'[a] # acquirers[a]
                     /\ receiver_lock = <<>>)
                    => receiver_lock' = <<a>> /\ acquirers'[a].pc = "try_recv"
               /\ (acquirers[a].pc = "try_recv" /\ acquirers'[a].pc = "create")
                    => cache_channel = <<>>
               /\ (acquirers[a].pc = "try_recv" /\ acquirers'[a] # acquirers[a]
                     /\ cache_channel # <<>>)
                    => /\ acquirers'[a].pc = "idle"
                       /\ acquirers'[a].owned = acquirers[a].owned \cup {Head(cache_channel)}
                       /\ cache_channel' = Tail(cache_channel)]_vars

\* C19 witness: a caller that was refused the lock has created a container
\* inline while the other caller is at try_recv with the channel full, and
\* each caller was handed a buffered container before.
C19_Witness ==
    /\ acquirers["a2"].pc = "created"
    /\ acquirers["a2"].try_lock = "None"
    /\ acquirers["a1"].pc = "try_recv"
    /\ Len(cache_channel) = 3
    /\ acquirers["a1"].owned # {}
    /\ acquirers["a2"].owned # {}

\* s is a prefix of t.
IsPrefix(s, t) == Len(s) <= Len(t) /\ s = SubSeq(t, 1, Len(s))

\* The bytes the FIFO got since the current call of write began.
WrittenByCall ==
    SubSeq(pipe.fifo, Len(write_call.before.fifo) + 1, Len(pipe.fifo))

\* C20: write rejects an embedded newline.  write(v) for a v with a newline
\* byte returns InvalidSerialization("contains newline", v) and leaves the
\* pipe as it was: no FIFO opened, no byte written.  For a v without one,
\* what is written is v followed by exactly one newline: a prefix of it while
\* the call runs or when it fails, all of it when it returns Ok.
C20_WriteRejectsNewline ==
    write_call.calls > 0 =>
      IF \E i \in 1..Len(write_call.v) : write_call.v[i] = "\n"
      THEN /\ write_call.pc = "returned"
           /\ write_call.result = <<"InvalidSerialization", "contains newline", write_call.v>>
           /\ pipe = write_call.before
      ELSE /\ write_call.result[1] # "InvalidSerialization"
           /\ IsPrefix(write_call.before.fifo, pipe.fifo)
           /\ IsPrefix(WrittenByCall, write_call.v \o <<"\n">>)
           /\ write_call.result = <<"Ok">> => WrittenByCall = write_call.v \o <<"\n">>
           /\ Len(WrittenByCall) > 0 =>
                pipe.component_input_fifo_file /\ pipe.component_output_fifo_file

\* C20 witness: write was called with a, newline on a pipe whose FIFOs were
\* never opened, and has returned.
C20_Witness ==
    /\ write_call.calls = 1
    /\ write_call.pc = "returned"
    /\ write_call.v = <<"a", "\n">>
    /\ write_call.result[1] = "InvalidSerialization"
    /\ ~pipe.component_input_fifo_file
    /\ pipe.fifo = <<>>

C22_AsStated ==
    (/\ peer.mode = "never_reads"
     /\ write_call.pc = "returned"
     /\ ~Contains(write_call.v, "\n")
     /\ pipe.component_input_fifo_file /\ pipe.component_output_fifo_file
     /\ Len(write_call.buf) > InputRoom + Len(WrittenByCall))
      => write_call.result = <<"OperationTimedOut", "pipe writing">>

\* The request of thread t is a POST /meta/activate or /meta/deactivate.
IsActivation(r) == r.kind \in {"activate", "bad_activate"}
IsDeactivation(r) == r.kind \in {"deactivate", "bad_deactivate"}

\* C23 as stated: a POST /meta/activate or /meta/deactivate that has ended
\* was answered 200 with a result status and no error: InvalidRequest for a
\* body that could not be parsed; the registry is changed by an activate only
\* with ActivationSuccessful, and left as it was with InvalidRequest and
\* FailedToStart.
C23_AsStated ==
    /\ [](\A t \in Threads :
            (pc[t] = "done" /\ (IsActivation(req[t]) \/ IsDeactivation(req[t])))
              => /\ outcome[t].err = "none"
                 /\ outcome[t].resp # <<>>
                 /\ outcome[t].resp[1].status = 200
                 /\ IsActivation(req[t]) =>
                      outcome[t].result \in {"invalid-request", "already-running",
                                             "failed-to-start", "activation-successful"}
                 /\ IsDeactivation(req[t]) =>
                      outcome[t].result \in {"invalid-request", "component-not-found",
                                             "deactivation-successful"})
    /\ [][\A t \in Threads :
            (pc[t] # "done" /\ pc'[t] = "done"
               /\ (IsActivation(req'[t]) \/ IsDeactivation(req'[t])))
              => /\ outcome'[t].result \in {"invalid-request", "failed-to-start"}
                      => active_components' = active_components
                 /\ (DOMAIN active_components' \ DOMAIN active_components) # {}
                      => /\ outcome'[t].result = "activation-successful"
                         /\ DOMAIN active_components' =
                              DOMAIN active_components \cup {req'[t].path}]_vars

\* The paths of the entries a status walk has collected, and the paths it has
\* still to visit.
CollectedPaths(t) == {c.path : c \in collected[t]}
ToVisit(t) == {todo[t][i] : i \in 1..Len(todo[t])}

\* C24: status is a snapshot of the registry.  While status walks the
\* registry no activate or deactivate takes effect: the entries collected and
\* the handles still to visit are, each path once, the paths registered; so
\* the active_components of the response has exactly one entry for each path
\* registered when the walk ends, which is the registry as it was when the
\* walk began, each with the id the path was activated with.
C24_StatusSnapshot ==
    /\ [](\A t \in Threads :
            pc[t] = "status_walk" =>
              /\ CollectedPaths(t) \cup ToVisit(t) = DOMAIN active_components
              /\ CollectedPaths(t) \cap ToVisit(t) = {}
              /\ Cardinality(collected[t]) + Len(todo[t])
                   = Cardinality(DOMAIN active_components)
              /\ \A c \in collected[t] : c.hash = active_components[c.path].hash)
    /\ [][\A t \in Threads :
            /\ (pc[t] = "status_walk" /\ pc'[t] = "status_walk")
                 => DOMAIN active_components' = DOMAIN active_components
            /\ (pc[t] = "status_walk" /\ pc'[t] = "done")
                 => /\ CollectedPaths(t)' = DOMAIN active_components
                    /\ Cardinality(collected'[t]) = Cardinality(DOMAIN active_components)
                    /\ outcome'[t].resp = <<[status |-> 200, body |-> "status"]>>]_vars

\* C24 witness: a status walk over one registered component has begun and not
\* yet visited it, while the other thread's activate of the other path waits
\* for the write lock.
C24_Witness ==
    \E t, u \in Threads :
      /\ pc[t] = "status_walk"
      /\ collected[t] = {}
      /\ todo[t] = <<"p1">>
      /\ pc[u] = "wait_write"
      /\ req[u].kind = "activate"
      /\ req[u].path = "p2"

\* Thread t holds the registry lock, as a reader or as the writer.
HoldsRegistryLock(t) == t \in readers \/ writer = <<t>>

\* Thread t is about to take a ComponentHandle lock, or waits for one.
TakesHandleLock(t) ==
    \/ pc[t] = "lock_handle"
    \/ pc[t] \in {"status_walk", "logs_walk"} /\ todo[t] # <<>>

\* C25 as stated: lock discipline.  No operation holds the registry lock, read
\* or write, when it takes or waits for a ComponentHandle lock; an invoke has
\* given up the registry's reader-lock before the per-handle call, so that no
\* activate or deactivate waits for a call in flight.
C25_AsStated ==
    /\ \A t \in Threads : TakesHandleLock(t) => ~HoldsRegistryLock(t)
    /\ (hb_pc = "sweep" /\ hb_todo # <<>>) => HeartbeatThread \notin readers
    /\ \A t \in Threads : InCall(t) => ~HoldsRegistryLock(t)
    /\ \A t, u \in Threads :
         (InCall(t) /\ pc[u] = "wait_write") => writer # <<>> \/ (readers \ {t}) # {}

\* The handles whose lock agent a holds.
LocksHeldBy(a) == {p \in DOMAIN active_components : active_components[p].lock = a}

\* C26: no thread holds two ComponentHandle locks at once.  Every lock is
\* held by nobody or by one request thread or the heartbeat thread, and none
\* of them holds the locks of two handles: an invoke holds only the lock of
\* the handle it looked up, and status, logs and heartbeat have given up each
\* handle's lock when they go on to the next.
C26_OneHandleLock ==
    /\ \A a \in Agents : Cardinality(LocksHeldBy(a)) <= 1
    /\ \A t \in Threads :
         /\ LocksHeldBy(t) # {} => InCall(t) /\ LocksHeldBy(t) = {req[t].path}
         /\ pc[t] \in {"status_walk", "logs_walk"} => LocksHeldBy(t) = {}
    /\ LocksHeldBy(HeartbeatThread) = {}

\* C26 witness: a status walk over two handles has visited one of them and
\* goes on to the other, while the heartbeat is in its sweep over both.
C26_Witness ==
    \E t \in Threads :
      /\ pc[t] = "status_walk"
      /\ Cardinality(collected[t]) = 1
      /\ Len(todo[t]) = 1
      /\ hb_pc = "sweep"
      /\ Len(hb_todo) = 1

\* The errors the process handle's query_process returns: of the poll, of
\* get_fds, and of NamedPipe::write, read and query.
HandleQueryErrors ==
    {"SubprocessTerminated", "OperationTimedOut", "Nix", "PipeDisconnected",
     "InvalidUtf8", "InvalidSerialization"}

\* Thread t's read finds a line of UTF-8 in the pipe: the process handle's
\* query returns it, and what fails after that fails in handle_component_call.
LineRead(t) ==
    /\ pc[t] = "pipe_read"
    /\ HandleOf(t).process_handle[1].fout # <<>>
    /\ Head(HandleOf(t).process_handle[1].fout).answer # "badutf8"

\* The errors of the process handle's query that nothing else gives.
PipeErrors == HandleQueryErrors \ {"InvalidUtf8"}

\* The step in which the process handle's query of thread t's invoke fails.
HandleQueryFails(t) ==
    /\ pc[t] \in {"poll", "pipe_write", "pipe_read"}
    /\ pc'[t] = "set_color"
    /\ call_resp'[t][1].err \in HandleQueryErrors
    /\ ~LineRead(t)

\* C27: a failed query drops the process handle.  Any error of the process
\* handle's query leaves the wrapper Unbooted, still registered, with the
\* process handle dropped (its subprocess no longer running); the error is
\* what the caller is given, unchanged; and the next query on the wrapper,
\* finding it Unbooted, boots a new process.
C27_FailedQueryDropsHandle ==
    /\ [](\A t \in Threads :
            (pc[t] = "set_color" /\ call_resp[t][1].err \in PipeErrors)
              => /\ req[t].path \in DOMAIN active_components
                 /\ ~Booted(active_components, req[t].path))
    /\ [][\A t \in Threads :
            LET p == req[t].path IN
            /\ HandleQueryFails(t) =>
                 /\ Booted(active_components, p)
                 /\ ~Booted(active_components', p)
                 /\ p \in DOMAIN active_components'
                 /\ procs'[PidOf(active_components, p)] # "running"
                 /\ Len(procs') = Len(procs)
            /\ (pc[t] = "set_color" /\ pc'[t] = "done"
                  /\ call_resp[t][1].err \in HandleQueryErrors)
                 => /\ outcome'[t].err = call_resp[t][1].err
                    /\ outcome'[t].resp =
                         <<[status |-> 543, body |-> to_string(call_resp[t][1].err)]>>
                    /\ call_resp[t][1].err \in PipeErrors => ~Booted(active_components', p)
            /\ (QueryStep(t) /\ ~Booted(active_components, p))
                 => /\ pc'[t] = "poll" => BootsOneFresh(p)
                    /\ pc'[t] # "poll" => ~Booted(active_components', p)]_vars

\* C27 witness: the query of an invoke failed on a running subprocess, which
\* was terminated with its handle, and the next invoke has booted a second
\* one.
C27_Witness ==
    \E t \in Threads :
      /\ pc[t] = "poll"
      /\ procs = <<"terminated", "running">>
      /\ PidOf(active_components, req[t].path) = 2
      /\ active_components[req[t].path].color = "Red"

\* The errors a boot may fail with.
BootErrors == UNION {BootOutcomes(m) : m \in ExecutionMethods} \ {"ok"}

\* The step in which the boot of thread t's query fails.
BootFails(t) ==
    /\ QueryStep(t)
    /\ ~Booted(active_components, req[t].path)
    /\ pc'[t] = "set_color"

\* C28: a failed boot keeps the component.  A boot that fails gives its error
\* to the caller and leaves the wrapper Unbooted, registered, with the
\* controller it had and no process started; every later query on the
\* Unbooted wrapper tries the boot again with that controller; and a
\* component leaves the registry only by a deactivate, however many of its
\* boots failed.
C28_FailedBootKeepsComponent ==
    [][/\ \A t \in Threads :
            LET p == req[t].path IN
            /\ BootFails(t) =>
                 /\ call_resp'[t][1].err \in BootErrors
                 /\ p \in DOMAIN active_components'
                 /\ ~Booted(active_components', p)
                 /\ active_components'[p].method = active_components[p].method
                 /\ active_components'[p].hash = active_components[p].hash
                 /\ procs' = procs
            /\ (pc[t] = "set_color" /\ pc'[t] = "done" /\ ~Booted(active_components, p)
                  /\ call_resp[t][1].err \in BootErrors)
                 => /\ outcome'[t].err = call_resp[t][1].err
                    /\ outcome'[t].resp # <<>>
                    /\ p \in DOMAIN active_components'
                    /\ ~Booted(active_components', p)
            /\ (QueryStep(t) /\ ~Booted(active_components, p))
                 => \/ pc'[t] = "poll" /\ BootsOneFresh(p)
                    \/ BootFails(t)
       /\ \A p \in Paths :
            (p \in DOMAIN active_components /\ p \notin DOMAIN active_components')
              => \E t \in Threads : DeactivateStep(t) /\ req[t].path = p]_vars

\* C28 witness: after a failed boot, which left the handle Red with no
\* process ever started, the query of the last of four requests has booted
\* the component's first process.
C28_Witness ==
    \E t \in Threads :
      /\ pc[t] = "poll"
      /\ budget = 0
      /\ procs = <<"running">>
      /\ active_components[req[t].path].color = "Red"
      /\ active_components[req[t].path].hits = 0

\* The process handles the registered wrappers hold, as pairs of the
\* component's path and the subprocess of the handle.
OwnedHandles ==
    {<<p, PidOf(active_components, p)>> :
       p \in {q \in DOMAIN active_components : Booted(active_components, q)}}

BootedPaths(ac) == {p \in DOMAIN ac : Booted(ac, p)}

\* C30: only invoke boots.  An activate starts no subprocess and registers the
\* wrapper Unbooted; a subprocess is started, and a wrapper becomes Booted,
\* only in the query of an invoke on that wrapper: never in a step of status,
\* logs or the heartbeat.
C30_OnlyInvokeBoots ==
    [][/\ \A t \in Threads :
            ActivateStep(t) =>
              /\ procs' = procs
              /\ BootedPaths(active_components') = BootedPaths(active_components)
              /\ outcome'[t].result = "activation-successful" =>
                   /\ req[t].path \in DOMAIN active_components'
                   /\ active_components'[req[t].path].process_handle = <<>>
       /\ (Len(procs') # Len(procs)
             \/ ~(BootedPaths(active_components') \subseteq BootedPaths(active_components)))
            => \E t \in Threads :
                 /\ QueryStep(t)
                 /\ req[t].kind = "invoke"
                 /\ BootedPaths(active_components')
                      = BootedPaths(active_components) \cup {req[t].path}
                 /\ Len(procs') = Len(procs) + 1
       /\ (\/ \E t \in Threads : req[t].kind \in {"status", "logs"} /\ pc'[t] # pc[t]
           \/ hb_pc' # hb_pc \/ hb_todo' # hb_todo)
            => /\ Len(procs') = Len(procs)
               /\ BootedPaths(active_components') \subseteq BootedPaths(active_components)]_vars

\* C30 witness: the only component, which was activated and has not been
\* invoked before, is booted by the query of its first invoke, the last of
\* four requests, after the heartbeat has swept over it.
C30_Witness ==
    \E t \in Threads :
      /\ pc[t] = "poll"
      /\ budget = 0
      /\ DOMAIN active_components = {"p1"}
      /\ active_components["p1"].color = "Unset"
      /\ procs = <<"running">>
      /\ hb_pc = "sweep" /\ hb_todo = <<>>

\* The wrapper of thread t's invoke is inside the process handle's query.
InHandleQuery(t) == pc[t] \in {"poll", "pipe_write", "pipe_read"}

\* C31: the heartbeat skips a busy handle.  A sweep that comes to a handle
\* whose lock is held goes on to the next at once and leaves the handle and
\* every subprocess as they are; the sweep's visit never waits; so the
\* wrapper of a query in flight keeps its process handle, and its subprocess
\* is not terminated, until the query itself ends.
C31_HeartbeatSkipsBusy ==
    /\ []((hb_pc = "sweep" /\ hb_todo # <<>>) => ENABLED HeartbeatVisit)
    /\ [](\A t \in Threads :
            InHandleQuery(t) =>
              /\ Booted(active_components, req[t].path)
              /\ procs[PidOf(active_components, req[t].path)] # "terminated")
    /\ [][(HeartbeatVisitStep /\ ~HandleLockFree(active_components[Head(hb_todo)]))
            => /\ active_components' = active_components
               /\ procs' = procs
               /\ hb_pc' = "sweep"]_vars

\* C31 witness: the sweep has come to the handle of a query in flight that
\* began more than EXPIRY ago.
C31_Witness ==
    \E t \in Threads :
      /\ pc[t] = "pipe_read"
      /\ hb_pc = "sweep"
      /\ hb_todo = <<req[t].path>>
      /\ Expired(active_components[req[t].path], now)
      /\ procs = <<"running">>

\* C32 as stated: heartbeat-driven eviction is independent of calls in
\* flight.  While a component call is in flight and nobody is changing the
\* registry, the heartbeat thread that is due for its sweep can begin it,
\* also when an activate or deactivate is pending.
C32_AsStated ==
    (/\ hb_pc = "sleep"
     /\ writer = <<>>
     /\ \E t \in Threads : InCall(t))
      => ENABLED HeartbeatStart

\* Thread t has looked a component up and not yet given up its handle.
UsesHandle(t) == pc[t] = "lock_handle" \/ InCall(t)

\* C33: activate and deactivate exclude everything else.  While a thread
\* holds the registry's write lock nobody reads the registry, and every
\* invoke between lookup and return, every status walk and every heartbeat
\* sweep holds a reader lock; so the handle of an invoke in flight is
\* registered until the invoke has returned, a deactivate is carried out only
\* when no invoke is in flight, and an invoke that looks up a path that is
\* not registered (deactivated and not activated since) ends with
\* PathNotFound.
C33_WriteExcludes ==
    /\ [](/\ writer # <<>> => readers = {}
          /\ \A t \in Threads :
               /\ pc[t] \in {"write_op", "logs_walk"} <=> writer = <<t>>
               /\ (UsesHandle(t) \/ pc[t] = "status_walk") <=> t \in readers
               /\ UsesHandle(t) => req[t].path \in DOMAIN active_components
          /\ hb_pc = "sweep" <=> HeartbeatThread \in readers)
    /\ [][\A t \in Threads :
            /\ (ActivateStep(t) \/ DeactivateStep(t))
                 => /\ \A u \in Threads : ~UsesHandle(u) /\ pc[u] # "status_walk"
                    /\ hb_pc = "sleep"
            /\ (LookupStep(t) /\ req[t].path \notin DOMAIN active_components)
                 => /\ pc'[t] = "done"
                    /\ outcome'[t].err = "PathNotFound"
                    /\ outcome'[t].resp = <<[status |-> 404, body |-> "v9: worker 404"]>>
            /\ (UsesHandle(t) /\ req[t].path \notin DOMAIN active_components')
                 => FALSE]_vars

\* C33 witness: a deactivate of p1 waits for the write lock while the other
\* thread's invoke on p1 is in its pipe exchange.
C33_Witness ==
    \E t, u \in Threads :
      /\ pc[t] = "pipe_read"
      /\ req[t].path = "p1"
      /\ pc[u] = "wait_write"
      /\ req[u].kind = "deactivate"
      /\ req[u].path = "p1"

\* C34 as stated: calls to different components are unordered.  An invoke
\* that is about to look its component up, while an invoke on another
\* component is in flight and nobody is changing the registry, can go on: it
\* does not wait for the call in flight.
C34_AsStated ==
    \A t, u \in Threads :
      (/\ pc[t] = "wait_read" /\ req[t].kind = "invoke"
       /\ InCall(u) /\ req[u].path # req[t].path
       /\ writer = <<>>)
        => ENABLED InvokeLookup(t)

\* The handle locks thread t holds.
HandleLocksOf(t) == {p \in DOMAIN active_components : active_components[p].lock = t}

\* C35: every invoke that found its component registered comes to its end with
\* a response or an error and with the handle lock released, whether or not
\* the component ever reads the request or writes an answer (the component is
\* not scheduled fairly: it may stay silent for ever).
C35_InvokeReturns ==
    /\ \A t \in Workers :
         (pc[t] = "lock_handle")
           ~> (/\ pc[t] = "done"
               /\ outcome[t].resp # <<>> \/ outcome[t].err # "none"
               /\ HandleLocksOf(t) = {})
    /\ [](\A t \in Workers : pc[t] \in {"idle", "done"} => HandleLocksOf(t) = {})

\* C35 witness: an invoke on a component that did not answer has ended with
\* the time-out of a pipe operation; its lock is free and the process handle
\* of every boot so far has been dropped.
C35_Witness ==
    \E t \in Workers :
      /\ pc[t] = "done" /\ req[t].kind = "invoke"
      /\ outcome[t].err = "OperationTimedOut"
      /\ HandleLocksOf(t) = {}
      /\ procs # <<>> /\ \A i \in DOMAIN procs : procs[i] = "terminated"

\* C36: a populator thread never ends: after a failed creation it sleeps and
\* creates again, with a container in hand it waits exactly while the channel
\* is full; and a channel that is not full (at the start, or after a caller
\* took a container) is full again later, creation succeeding in the end.
C36_ProducersRefill ==
    /\ [](\A i \in Populators :
            /\ populators[i].pc \in {"create", "sleep", "send"}
            /\ populators[i].pc = "create" => ENABLED PopulatorCreate(i)
            /\ populators[i].pc = "sleep" => ENABLED PopulatorSleep(i)
            /\ populators[i].pc = "send" =>
                 /\ populators[i].held # <<>>
                 /\ ENABLED PopulatorSend(i)
                      <=> Len(cache_channel) < CONTAINER_CACHE_CHANNEL_SIZE)
    /\ [](Len(cache_channel) <= CONTAINER_CACHE_CHANNEL_SIZE)
    /\ (Len(cache_channel) < CONTAINER_CACHE_CHANNEL_SIZE)
         ~> (Len(cache_channel) = CONTAINER_CACHE_CHANNEL_SIZE)

\* C36 witness: a caller was handed a container of the channel, the channel
\* is full again, and both populators wait with a container in hand.
C36_Witness ==
    /\ \E a \in Acquirers : acquirers[a].owned # {} /\ acquirers[a].pc = "idle"
    /\ containers = CONTAINER_CACHE_CHANNEL_SIZE + CACHE_POPULATOR_COUNT + 1
    /\ Len(cache_channel) = CONTAINER_CACHE_CHANNEL_SIZE
    /\ \A i \in Populators : populators[i].pc = "send"

\* C37: a Booted wrapper becomes Unbooted only in a failed query on it, in a
\* heartbeat visit that finds now - last_accessed > EXPIRY, or by being
\* deactivated.  Every query sets last_accessed to the time it starts at,
\* whether the boot or the exchange then fails or not, and nothing else changes
\* it; so a heartbeat visit of a wrapper whose last query started at most
\* EXPIRY ago leaves it as it is, and so does a visit of an Unbooted wrapper.
C37_UnbootedOnlyBy ==
    [][/\ \A p \in Paths :
            (Booted(active_components, p) /\ ~Booted(active_components', p)) =>
              \/ \E t \in Threads : QueryFails(t) /\ req[t].path = p
              \/ /\ HeartbeatVisitStep /\ Head(hb_todo) = p
                 /\ now - active_components[p].last_accessed > EXPIRY_DURATION
              \/ /\ \E t \in Threads : DeactivateStep(t) /\ req[t].path = p
                 /\ p \notin DOMAIN active_components'
       /\ \A t \in Threads :
            QueryStep(t) =>
              /\ req[t].path \in DOMAIN active_components'
              /\ active_components'[req[t].path].last_accessed = now
       /\ \A p \in Paths :
            (/\ p \in DOMAIN active_components /\ p \in DOMAIN active_components'
             /\ active_components'[p].last_accessed # active_components[p].last_accessed)
              => \E t \in Threads : QueryStep(t) /\ req[t].path = p
       /\ HeartbeatVisitStep =>
            LET p == Head(hb_todo)
                h == active_components[p]
            IN (~Booted(active_components, p) \/ now - h.last_accessed <= EXPIRY_DURATION)
                 => active_components' = active_components /\ procs' = procs]_vars

\* C37 witness: the heartbeat has visited, with the handle lock free, a Booted
\* wrapper whose last query started exactly EXPIRY ago, after the clock had
\* moved before that query; the wrapper is still Booted.
C37_Witness ==
    /\ hb_pc = "sweep" /\ hb_todo = <<>>
    /\ Booted(active_components, "p1")
    /\ active_components["p1"].lock = "free"
    /\ active_components["p1"].last_accessed = ClockStep
    /\ now - active_components["p1"].last_accessed = EXPIRY_DURATION
    /\ procs[PidOf(active_components, "p1")] = "running"

\* A thread is inside the pipe exchange of component p.
Exchanging(p) ==
    \E t \in Threads :
      active_components[p].lock = t /\ pc[t] \in {"pipe_write", "pipe_read"}

\* C38: request/response pairing, the component writing one answer line for
\* each request line it reads.  Outside a pipe exchange the pipe of a Booted
\* wrapper is empty in both directions (nothing of an earlier exchange, ended
\* or failed, is left in it); inside one it holds bytes and answers of the
\* thread that holds the handle lock only, at most one answer; and an exchange
\* that succeeds gives its invoke the answer to the line that invoke wrote.
C38_Pairing ==
    /\ [](\A p \in DOMAIN active_components :
            Booted(active_components, p) =>
              LET h == active_components[p]
                  ph == h.process_handle[1]
              IN /\ ~Exchanging(p) => (ph.fin = <<>> /\ ph.fout = <<>>)
                 /\ Len(ph.fout) <= 1
                 /\ \A i \in 1..Len(ph.fin) : ph.fin[i][2] = h.lock
                 /\ \A i \in 1..Len(ph.fout) : ph.fout[i].for = <<h.lock>>)
    /\ [][\A t \in Threads :
            ExchangeSucceeds(t) =>
              LET ph == HandleOf(t).process_handle[1] IN
              /\ ph.fout # <<>>
              /\ Head(ph.fout).for = <<t>>
              /\ call_resp'[t][1] = Decoded(Head(ph.fout).answer)
              /\ Booted(active_components', req[t].path)
              /\ active_components'[req[t].path].process_handle[1].fout = <<>>
              /\ active_components'[req[t].path].process_handle[1].fin = <<>>]_vars

\* C38 witness: an invoke on p1 ended with a time-out, and a later invoke on
\* p1, on the process booted after that, has read the answer to its request.
C38_Witness ==
    \E t, u \in Threads :
      /\ t # u
      /\ pc[u] = "done" /\ req[u].kind = "invoke" /\ req[u].path = "p1"
      /\ outcome[u].err = "OperationTimedOut"
      /\ pc[t] = "set_color" /\ req[t].path = "p1"
      /\ call_resp[t][1].err = "none"
      /\ procs = <<"terminated", "running">>

\* The answers of a component that the pipe exchange returns and
\* handle_component_call then fails to turn into a response.
DecodingFailures == {"badpercent", "undecodable", "bigstatus"}

\* The step in which thread t's invoke reads such an answer.
DecodingFails(t) ==
    /\ pc[t] = "pipe_read" /\ pc'[t] # "pipe_read"
    /\ HandleOf(t).process_handle[1].fout # <<>>
    /\ Head(HandleOf(t).process_handle[1].fout).answer \in DecodingFailures

\* C39: a response that the pipe exchange returned and that cannot be
\* percent-decoded as UTF-8, cannot be decoded into a ComponentResponse, or
\* carries a code that does not fit 16 bits, makes the invoke return an error:
\* no stat event is recorded, the wrapper keeps its process handle (still
\* Booted, same subprocess, the line consumed), the colour stored is Red and
\* the client is answered 543.
C39_DecodingFailure ==
    [][\A t \in Threads :
         LET p == req[t].path
             h == active_components[p]
         IN /\ DecodingFails(t) =>
                 /\ pc'[t] = "set_color"
                 /\ call_resp'[t][1].err \in {"InvalidUtf8", "InternalJsonHandling",
                                              "IntegerConversion"}
                 /\ active_components'[p].hits = h.hits
                 /\ Booted(active_components', p)
                 /\ PidOf(active_components', p) = PidOf(active_components, p)
                 /\ procs' = procs
                 /\ active_components'[p].process_handle[1].fout = <<>>
                 /\ active_components'[p].lock = t
            /\ (/\ pc[t] = "set_color" /\ pc'[t] = "done"
                /\ call_resp[t][1].err \in {"InternalJsonHandling", "IntegerConversion"})
                 => /\ active_components'[p].color = "Red"
                    /\ active_components'[p].hits = h.hits
                    /\ outcome'[t].err = call_resp[t][1].err
                    /\ outcome'[t].resp =
                         <<[status |-> 543, body |-> to_string(call_resp[t][1].err)]>>
                    /\ Booted(active_components', p)
                    /\ active_components'[p].process_handle = h.process_handle]_vars

\* C39 witness: an invoke whose answer's code did not fit 16 bits has ended
\* with 543; the wrapper is Red, still Booted on its first subprocess, which
\* runs, and has recorded nothing.
C39_Witness ==
    \E t \in Threads :
      /\ pc[t] = "done" /\ req[t].kind = "invoke"
      /\ outcome[t].err = "IntegerConversion"
      /\ outcome[t].resp # <<>> /\ outcome[t].resp[1].status = 543
      /\ Booted(active_components, req[t].path)
      /\ active_components[req[t].path].color = "Red"
      /\ active_components[req[t].path].hits = 0
      /\ procs = <<"running">>

\* C40: an activate of a path that is registered answers AlreadyRunning
\* whatever the construction of the controller would have come to, having run
\* no constructor (no wrapper and controller, so no image loaded and no
\* archive deleted, no log tracker, so no dedup_number drawn, no stat
\* tracker); the registry, its handles and the subprocesses are as they were.
C40_RedundantActivate ==
    [][\A t \in Threads :
         (ActivateStep(t) /\ ContainsKey(active_components, req[t])) =>
           /\ \A ctor \in ControllerOutcomes(req[t].method) :
                LET res == Activate(active_components, req[t], ctor, now) IN
                /\ res.result = "already-running"
                /\ res.built = <<>>
                /\ res.ac = active_components
           /\ outcome'[t].err = "none"
           /\ outcome'[t].result = "already-running"
           /\ outcome'[t].resp = <<[status |-> 200, body |-> "already-running"]>>
           /\ active_components' = active_components
           /\ procs' = procs]_vars

\* C40 witness: an activate with a Docker archive, for a path registered with
\* another hash and method and Booted, has answered AlreadyRunning; the
\* component's subprocess runs.
C40_Witness ==
    \E t \in Threads :
      /\ pc[t] = "done" /\ req[t].kind = "activate"
      /\ req[t].method = "DockerArchive"
      /\ outcome[t].result = "already-running"
      /\ Booted(active_components, req[t].path)
      /\ active_components[req[t].path].method = "PythonUnsafe"
      /\ active_components[req[t].path].hash # req[t].hash
      /\ procs = <<"running">>

====
